---- MODULE Spec2Model ----
(***************************************************************************)
(* State-machine model of streamguard::stream_manager                      *)
(* (src/move/sources/stream_manager.move): the stream lifecycle, viewer    *)
(* sessions, the shared registry, the revenue balance and the event log.   *)
(*                                                                         *)
(* Every entry point is a pure operator from (state, arguments, sender,    *)
(* clock) to a result [err, st]: err = 0 and st the new state when the     *)
(* call returns, err = the abort code and st the state before the call     *)
(* when it aborts (a Move transaction that aborts commits nothing).        *)
(* Objects are addressed by the order of their creation: stream k is the   *)
(* k-th Stream allocated, session k the k-th ViewerSession.  Coins are     *)
(* amounts taken out of the sender's holdings in `funds`.                  *)
(***************************************************************************)
EXTENDS Integers, Sequences, FiniteSets, TLC

VARIABLES streams, sessions, registry, funds, events, now

vars == <<streams, sessions, registry, funds, events, now>>

---------------------------------------------------------------------------
(* Bounds of the model *)

MaxStreams == 2
MaxSessions == 2
MaxEvents == 4
InitFunds == 20

---------------------------------------------------------------------------
(* Constants of the module *)

ENotStreamOwner == 1
EStreamNotActive == 2
EInsufficientPayment == 3
EStreamAlreadyEnded == 4
EInvalidQuality == 5
EWalrusStorageError == 6

\* Aborts raised below the module: table::add on a key that is present, and
\* an unsigned subtraction that would go below zero.
ETableKeyExists == 100
EArithmeticError == 101
ETableKeyMissing == 102

STREAM_STATUS_CREATED == 0
STREAM_STATUS_LIVE == 1
STREAM_STATUS_ENDED == 2
STREAM_STATUS_ARCHIVED == 3

QUALITY_240P == 0
QUALITY_480P == 1
QUALITY_720P == 2
QUALITY_1080P == 3
QUALITY_4K == 4

---------------------------------------------------------------------------
(* Inputs *)

Addrs == {"alice", "bob"}

\* The values the Clock object passed to the entry points takes, in order.
ClockValues == {1, 2}

\* The addresses that create streams; every address calls every entry point.
Creators == {"alice"}

Amounts == {5, 10, 15}

TipAmounts == {5}

SegNums == {0}

Blobs == {"blobA", "blobB"}

Manifests == {"manifest"}

HeartbeatQualities == {QUALITY_4K, QUALITY_4K + 1}

\* Option<Coin<SUI>>: the empty sequence is none, <<p>> is some coin of value p.
Payments == {<<>>} \cup {<<p>> : p \in Amounts}

CfgPaid ==
  [title |-> "title", description |-> "description", category |-> "gaming",
   thumbnail_walrus_id |-> "thumb",
   quality_levels |-> <<QUALITY_720P, QUALITY_1080P>>,
   is_monetized |-> TRUE, subscription_price |-> 10, tip_enabled |-> TRUE,
   content_rating |-> "general", tags |-> <<"tag">>]

CfgFree ==
  [title |-> "title", description |-> "description", category |-> "music",
   thumbnail_walrus_id |-> "thumb",
   quality_levels |-> <<QUALITY_4K>>,
   is_monetized |-> FALSE, subscription_price |-> 10, tip_enabled |-> FALSE,
   content_rating |-> "general", tags |-> <<"tag">>]

CfgBad ==
  [title |-> "title", description |-> "description", category |-> "music",
   thumbnail_walrus_id |-> "thumb",
   quality_levels |-> <<QUALITY_720P, QUALITY_4K + 1>>,
   is_monetized |-> TRUE, subscription_price |-> 10, tip_enabled |-> TRUE,
   content_rating |-> "general", tags |-> <<"tag">>]

Configs == {CfgPaid, CfgFree, CfgBad}

---------------------------------------------------------------------------
(* The state as one value, and the two ways a call ends *)

State ==
  [streams |-> streams, sessions |-> sessions, registry |-> registry,
   funds |-> funds, events |-> events]

Ok(S) == [err |-> 0, st |-> S]

\* A Move transaction that aborts commits nothing: the result of an aborted
\* call carries the state before the call.
Abort(S, code) == [err |-> code, st |-> S]

---------------------------------------------------------------------------
(* Events *)

StreamCreated(stream_id, creator, title, category, timestamp) ==
  [type |-> "StreamCreated", stream_id |-> stream_id, creator |-> creator,
   title |-> title, category |-> category, timestamp |-> timestamp]

StreamStarted(stream_id, creator, timestamp) ==
  [type |-> "StreamStarted", stream_id |-> stream_id, creator |-> creator,
   timestamp |-> timestamp]

StreamEnded(stream_id, creator, duration, total_viewers, revenue, timestamp) ==
  [type |-> "StreamEnded", stream_id |-> stream_id, creator |-> creator,
   duration |-> duration, total_viewers |-> total_viewers,
   revenue |-> revenue, timestamp |-> timestamp]

\* The event is emitted without the clock value.
ViewerJoined_NoTimestamp(stream_id, viewer, timestamp) ==
  [type |-> "ViewerJoined", stream_id |-> stream_id, viewer |-> viewer,
   timestamp |-> 0]

ViewerJoined(stream_id, viewer, timestamp) ==
  [type |-> "ViewerJoined", stream_id |-> stream_id, viewer |-> viewer,
   timestamp |-> timestamp]

TipSent(stream_id, from, to, amount, message, timestamp) ==
  [type |-> "TipSent", stream_id |-> stream_id, from |-> from, to |-> to,
   amount |-> amount, message |-> message, timestamp |-> timestamp]

WalrusSegmentStored(stream_id, segment_number, walrus_blob_id, timestamp) ==
  [type |-> "WalrusSegmentStored", stream_id |-> stream_id,
   segment_number |-> segment_number, walrus_blob_id |-> walrus_blob_id,
   timestamp |-> timestamp]

---------------------------------------------------------------------------
(* init: the registry shared at deployment *)

InitRegistry ==
  [total_streams |-> 0, active_streams |-> 0, total_creators |-> 0,
   featured_streams |-> <<>>, category_streams |-> <<>>]

---------------------------------------------------------------------------
(* create_stream *)

\* The validation loop: every requested tier is at most QUALITY_4K.
\* The maximum tier itself is rejected.
QualityLevelsValid_BelowMax(quality_levels) ==
  \A i \in 1..Len(quality_levels) : quality_levels[i] < QUALITY_4K

QualityLevelsValid(quality_levels) ==
  \A i \in 1..Len(quality_levels) : quality_levels[i] <= QUALITY_4K

\* The stream is stamped as started when it is created.
NewStream_StartedAtCreation(config, creator, current_time) ==
  [creator |-> creator,
   title |-> config.title,
   description |-> config.description,
   category |-> config.category,
   thumbnail_walrus_id |-> config.thumbnail_walrus_id,
   hls_manifest_walrus_id |-> "",
   status |-> STREAM_STATUS_CREATED,
   created_at |-> current_time,
   started_at |-> current_time,
   ended_at |-> 0,
   viewer_count |-> 0,
   total_revenue |-> 0,
   revenue_splits |-> <<>>,
   quality_levels |-> config.quality_levels,
   is_monetized |-> config.is_monetized,
   subscription_price |-> config.subscription_price,
   tip_enabled |-> config.tip_enabled,
   moderation_score |-> 100,
   content_rating |-> config.content_rating,
   tags |-> config.tags,
   walrus_segments |-> <<>>]

NewStream(config, creator, current_time) ==
  [creator |-> creator,
   title |-> config.title,
   description |-> config.description,
   category |-> config.category,
   thumbnail_walrus_id |-> config.thumbnail_walrus_id,
   hls_manifest_walrus_id |-> "",
   status |-> STREAM_STATUS_CREATED,
   created_at |-> current_time,
   started_at |-> 0,
   ended_at |-> 0,
   viewer_count |-> 0,
   total_revenue |-> 0,
   revenue_splits |-> <<>>,
   quality_levels |-> config.quality_levels,
   is_monetized |-> config.is_monetized,
   subscription_price |-> config.subscription_price,
   tip_enabled |-> config.tip_enabled,
   moderation_score |-> 100,
   content_rating |-> config.content_rating,
   tags |-> config.tags,
   walrus_segments |-> <<>>]

\* registry.total_streams + 1, and the id pushed onto the bucket of its
\* category, the bucket being added empty when the category is new.
\* The new stream is indexed but not counted.
CreateRegistry_NotCounted(reg, category, stream_id) ==
  LET cs == reg.category_streams
      withBucket == IF category \in DOMAIN cs THEN cs ELSE cs @@ (category :> <<>>)
  IN [reg EXCEPT
        !.category_streams =
            [withBucket EXCEPT ![category] = Append(@, stream_id)]]

\* The category's bucket is started afresh on every creation.
CreateRegistry_FreshBucket(reg, category, stream_id) ==
  [reg EXCEPT
     !.total_streams = @ + 1,
     !.category_streams =
         [c \in DOMAIN @ \cup {category} |->
            IF c = category THEN <<stream_id>> ELSE @[c]]]

CreateRegistry(reg, category, stream_id) ==
  LET cs == reg.category_streams
      withBucket == IF category \in DOMAIN cs THEN cs ELSE cs @@ (category :> <<>>)
  IN [reg EXCEPT
        !.total_streams = @ + 1,
        !.category_streams =
            [withBucket EXCEPT ![category] = Append(@, stream_id)]]

create_stream(S, config, sender, current_time) ==
  LET stream_id == Len(S.streams) + 1 IN
  IF ~QualityLevelsValid(config.quality_levels) THEN Abort(S, EInvalidQuality)
  ELSE
    Ok([S EXCEPT
          !.streams = Append(@, NewStream(config, sender, current_time)),
          !.registry = CreateRegistry(@, config.category, stream_id),
          !.events = Append(@, StreamCreated(stream_id, sender, config.title,
                                             config.category, current_time))])

---------------------------------------------------------------------------
(* start_stream *)

\* No check of the sender against the stream's creator.
IsStreamOwner_Anyone(stream, sender) == TRUE

IsStreamOwner(stream, sender) == stream.creator = sender

\* A status check that only refuses a stream that is live.
StartStatusOk_AnyButLive(stream) == stream.status # STREAM_STATUS_LIVE

StartStatusOk(stream) == stream.status = STREAM_STATUS_CREATED

\* The live count is written from a stale reading instead of incremented.
StartRegistry_StaleCount(reg) == [reg EXCEPT !.active_streams = 1]

StartRegistry(reg) == [reg EXCEPT !.active_streams = @ + 1]

start_stream(S, sid, hls_manifest_walrus_id, sender, current_time) ==
  LET stream == S.streams[sid] IN
  IF ~IsStreamOwner(stream, sender) THEN Abort(S, ENotStreamOwner)
  ELSE IF ~StartStatusOk(stream) THEN Abort(S, EStreamNotActive)
  ELSE
    Ok([S EXCEPT
          !.streams[sid] =
              [@ EXCEPT !.status = STREAM_STATUS_LIVE,
                        !.started_at = current_time,
                        !.hls_manifest_walrus_id = hls_manifest_walrus_id],
          !.registry = StartRegistry(@),
          !.events = Append(@, StreamStarted(sid, stream.creator, current_time))])

---------------------------------------------------------------------------
(* end_stream *)

\* No status check at all.
EndStatusOk_AnyStatus(stream) == TRUE

\* A status check that only refuses a stream that has ended.
EndStatusOk_AnyButEnded(stream) == stream.status # STREAM_STATUS_ENDED

EndStatusOk(stream) == stream.status = STREAM_STATUS_LIVE

\* The category buckets are compacted when a stream ends.
EndRegistry_CompactsBuckets(reg) ==
  [reg EXCEPT !.active_streams = @ - 1,
              !.category_streams = [c \in DOMAIN @ |-> <<>>]]

\* The registry left as it is when a stream ends.
EndRegistry_NoDecrement(reg) == reg

EndRegistry(reg) == [reg EXCEPT !.active_streams = @ - 1]

\* The event reports the subscriptions sold instead of the balance held.
EndRevenue_PriceTimesViewers(stream) ==
  stream.subscription_price * stream.viewer_count

\* The revenue the StreamEnded event reports: balance::value(&total_revenue).
EndRevenue(stream) == stream.total_revenue

\* The duration is measured from the stream's creation.
EndDuration_SinceCreation(stream, current_time) ==
  current_time - stream.created_at

\* let duration = current_time - stream.started_at
EndDuration(stream, current_time) == current_time - stream.started_at

end_stream(S, sid, sender, current_time) ==
  LET stream == S.streams[sid] IN
  IF ~IsStreamOwner(stream, sender) THEN Abort(S, ENotStreamOwner)
  ELSE IF ~EndStatusOk(stream) THEN Abort(S, EStreamNotActive)
  ELSE IF S.registry.active_streams < 1 THEN Abort(S, EArithmeticError)
  ELSE IF current_time < stream.started_at THEN Abort(S, EArithmeticError)
  ELSE
    Ok([S EXCEPT
          !.streams[sid] =
              [@ EXCEPT !.status = STREAM_STATUS_ENDED,
                        !.ended_at = current_time],
          !.registry = EndRegistry(@),
          !.events = Append(@, StreamEnded(sid, stream.creator,
                                           EndDuration(stream, current_time),
                                           stream.viewer_count,
                                           EndRevenue(stream),
                                           current_time))])

---------------------------------------------------------------------------
(* store_walrus_segment *)

\* Segments are accepted only while the stream is live.
store_walrus_segment_LiveOnly(S, sid, segment_number, walrus_blob_id, sender, current_time) ==
  LET stream == S.streams[sid] IN
  IF ~IsStreamOwner(stream, sender) THEN Abort(S, ENotStreamOwner)
  ELSE IF stream.status # STREAM_STATUS_LIVE THEN Abort(S, EStreamNotActive)
  ELSE IF segment_number \in DOMAIN stream.walrus_segments
       THEN Abort(S, ETableKeyExists)
  ELSE
    Ok([S EXCEPT
          !.streams[sid].walrus_segments = @ @@ (segment_number :> walrus_blob_id),
          !.events = Append(@, WalrusSegmentStored(sid, segment_number,
                                                   walrus_blob_id, current_time))])

\* A segment number already stored is overwritten with the new blob.
store_walrus_segment_Overwrites(S, sid, segment_number, walrus_blob_id, sender, current_time) ==
  LET stream == S.streams[sid] IN
  IF ~IsStreamOwner(stream, sender) THEN Abort(S, ENotStreamOwner)
  ELSE
    Ok([S EXCEPT
          !.streams[sid].walrus_segments =
              [n \in DOMAIN @ \cup {segment_number} |->
                 IF n = segment_number THEN walrus_blob_id ELSE @[n]],
          !.events = Append(@, WalrusSegmentStored(sid, segment_number,
                                                   walrus_blob_id, current_time))])

store_walrus_segment(S, sid, segment_number, walrus_blob_id, sender, current_time) ==
  LET stream == S.streams[sid] IN
  IF ~IsStreamOwner(stream, sender) THEN Abort(S, ENotStreamOwner)
  ELSE IF segment_number \in DOMAIN stream.walrus_segments
       THEN Abort(S, ETableKeyExists)
  ELSE
    Ok([S EXCEPT
          !.streams[sid].walrus_segments = @ @@ (segment_number :> walrus_blob_id),
          !.events = Append(@, WalrusSegmentStored(sid, segment_number,
                                                   walrus_blob_id, current_time))])

---------------------------------------------------------------------------
(* join_stream *)

\* A status check that only refuses a stream not yet started.
JoinStatusOk_AnyButCreated(stream) == stream.status # STREAM_STATUS_CREATED

JoinStatusOk(stream) == stream.status = STREAM_STATUS_LIVE

\* The payment branch is taken for any coin, monetized stream or not.
JoinTakesPayment_AnyCoin(stream, payment) == Len(payment) > 0

\* The payment branch is taken when the stream is monetized and a coin is
\* supplied.
JoinTakesPayment(stream, payment) == stream.is_monetized /\ Len(payment) > 0

\* A price check that accepts any coin of positive value.
JoinPaymentOk_AnyPositive(stream, amount) == amount > 0

JoinPaymentOk(stream, amount) == amount >= stream.subscription_price

\* Only the price is merged into the balance.
JoinBalance_PriceOnly(stream, amount) ==
  stream.total_revenue + stream.subscription_price

\* balance::join(&mut stream.total_revenue, coin::into_balance(coin))
JoinBalance(stream, amount) == stream.total_revenue + amount

\* The viewer is counted twice.
JoinViewerCount_CountsTwice(viewer_count) == viewer_count + 2

\* The viewer is not counted.
JoinViewerCount_NotCounted(viewer_count) == viewer_count

JoinViewerCount(viewer_count) == viewer_count + 1

\* Every session is recorded as paid.
NewSession_AlwaysPaid(sid, viewer, current_time, has_paid) ==
  [stream_id |-> sid,
   viewer |-> viewer,
   started_at |-> current_time,
   last_heartbeat |-> current_time,
   total_watch_time |-> 0,
   quality_level |-> QUALITY_720P,
   has_paid |-> TRUE,
   tips_sent |-> 0]

\* The session starts at the stream's 1080p tier.
NewSession_Starts1080p(sid, viewer, current_time, has_paid) ==
  [stream_id |-> sid,
   viewer |-> viewer,
   started_at |-> current_time,
   last_heartbeat |-> current_time,
   total_watch_time |-> 0,
   quality_level |-> QUALITY_1080P,
   has_paid |-> has_paid,
   tips_sent |-> 0]

\* A session whose first heartbeat is still to come.
NewSession_NoFirstHeartbeat(sid, viewer, current_time, has_paid) ==
  [stream_id |-> sid,
   viewer |-> viewer,
   started_at |-> current_time,
   last_heartbeat |-> 0,
   total_watch_time |-> 0,
   quality_level |-> QUALITY_720P,
   has_paid |-> has_paid,
   tips_sent |-> 0]

NewSession(sid, viewer, current_time, has_paid) ==
  [stream_id |-> sid,
   viewer |-> viewer,
   started_at |-> current_time,
   last_heartbeat |-> current_time,
   total_watch_time |-> 0,
   quality_level |-> QUALITY_720P,
   has_paid |-> has_paid,
   tips_sent |-> 0]

\* The coin passed in leaves the sender's holdings; a coin still in the
\* option after the payment branch is transferred to the viewer.
join_stream(S, sid, payment, sender, current_time) ==
  LET stream == S.streams[sid]
      viewer == sender
      supplied == IF Len(payment) > 0 THEN payment[1] ELSE 0
      taken == JoinTakesPayment(stream, payment)
      has_paid == taken
      left == IF taken THEN <<>> ELSE payment
      fundsIn == [S.funds EXCEPT ![sender] = @ - supplied]
      fundsOut == IF Len(left) > 0
                  THEN [fundsIn EXCEPT ![viewer] = @ + left[1]]
                  ELSE fundsIn
  IN
  IF ~JoinStatusOk(stream) THEN Abort(S, EStreamNotActive)
  ELSE IF taken /\ ~JoinPaymentOk(stream, payment[1])
       THEN Abort(S, EInsufficientPayment)
  ELSE
    Ok([S EXCEPT
          !.streams[sid] =
              [@ EXCEPT !.total_revenue =
                            IF taken THEN JoinBalance(stream, payment[1]) ELSE @,
                        !.viewer_count = JoinViewerCount(@)],
          !.funds = fundsOut,
          !.sessions = Append(@, NewSession(sid, viewer, current_time, has_paid)),
          !.events = Append(@, ViewerJoined(sid, viewer, current_time))])

---------------------------------------------------------------------------
(* send_tip *)

TipEnabled(stream) == stream.tip_enabled

\* No check of the sender against the session's viewer.
IsSessionOwner_Anyone(session, sender) == TRUE

IsSessionOwner(session, sender) == session.viewer = sender

\* balance::join(&mut stream.total_revenue, coin::into_balance(tip))
\* The tip is taken out of the balance.
TipBalance_Subtracts(total_revenue, amount) == total_revenue - amount

TipBalance(total_revenue, amount) == total_revenue + amount

\* The session keeps the last tip instead of the running total.
TipSessionTotal_LastOnly(tips_sent, amount) == amount

TipSessionTotal(tips_sent, amount) == tips_sent + amount

\* A tip is accepted only from a session of the tipped stream.
send_tip_OwnStreamOnly(S, sid, ssid, tip, message, sender, current_time) ==
  LET stream == S.streams[sid]
      session == S.sessions[ssid]
      amount == tip
  IN
  IF ~TipEnabled(stream) THEN Abort(S, EStreamNotActive)
  ELSE IF ~IsSessionOwner(session, sender) THEN Abort(S, ENotStreamOwner)
  ELSE IF session.stream_id # sid THEN Abort(S, EStreamNotActive)
  ELSE
    Ok([S EXCEPT
          !.funds[sender] = @ - tip,
          !.streams[sid].total_revenue = TipBalance(@, amount),
          !.sessions[ssid].tips_sent = TipSessionTotal(@, amount),
          !.events = Append(@, TipSent(sid, session.viewer, stream.creator,
                                       amount, message, current_time))])

\* A tip marks the tipping session as paid.
send_tip_MarksPaid(S, sid, ssid, tip, message, sender, current_time) ==
  LET stream == S.streams[sid]
      session == S.sessions[ssid]
      amount == tip
  IN
  IF ~TipEnabled(stream) THEN Abort(S, EStreamNotActive)
  ELSE IF ~IsSessionOwner(session, sender) THEN Abort(S, ENotStreamOwner)
  ELSE
    Ok([S EXCEPT
          !.funds[sender] = @ - tip,
          !.streams[sid].total_revenue = TipBalance(@, amount),
          !.sessions[ssid].tips_sent = TipSessionTotal(@, amount),
          !.sessions[ssid].has_paid = TRUE,
          !.events = Append(@, TipSent(sid, session.viewer, stream.creator,
                                       amount, message, current_time))])

send_tip(S, sid, ssid, tip, message, sender, current_time) ==
  LET stream == S.streams[sid]
      session == S.sessions[ssid]
      amount == tip
  IN
  IF ~TipEnabled(stream) THEN Abort(S, EStreamNotActive)
  ELSE IF ~IsSessionOwner(session, sender) THEN Abort(S, ENotStreamOwner)
  ELSE
    Ok([S EXCEPT
          !.funds[sender] = @ - tip,
          !.streams[sid].total_revenue = TipBalance(@, amount),
          !.sessions[ssid].tips_sent = TipSessionTotal(@, amount),
          !.events = Append(@, TipSent(sid, session.viewer, stream.creator,
                                       amount, message, current_time))])

---------------------------------------------------------------------------
(* update_viewer_heartbeat *)

\* Any tier a u8 can carry is accepted.
HeartbeatQualityOk_AnyTier(quality_level) == quality_level <= 255

HeartbeatQualityOk(quality_level) == quality_level <= QUALITY_4K

\* The watch time is the length of the last interval only.
HeartbeatWatchTime_LastInterval(total_watch_time, time_diff) == time_diff

\* session.total_watch_time = session.total_watch_time + time_diff
HeartbeatWatchTime(total_watch_time, time_diff) == total_watch_time + time_diff

\* The quality tier is checked before the sender.
update_viewer_heartbeat_QualityFirst(S, ssid, quality_level, sender, current_time) ==
  LET session == S.sessions[ssid]
      time_diff == current_time - session.last_heartbeat
  IN
  IF ~HeartbeatQualityOk(quality_level) THEN Abort(S, EInvalidQuality)
  ELSE IF ~IsSessionOwner(session, sender) THEN Abort(S, ENotStreamOwner)
  ELSE IF time_diff < 0 THEN Abort(S, EArithmeticError)
  ELSE
    Ok([S EXCEPT
          !.sessions[ssid] =
              [@ EXCEPT !.total_watch_time = HeartbeatWatchTime(@, time_diff),
                        !.last_heartbeat = current_time,
                        !.quality_level = quality_level]])

update_viewer_heartbeat(S, ssid, quality_level, sender, current_time) ==
  LET session == S.sessions[ssid]
      time_diff == current_time - session.last_heartbeat
  IN
  IF ~IsSessionOwner(session, sender) THEN Abort(S, ENotStreamOwner)
  ELSE IF ~HeartbeatQualityOk(quality_level) THEN Abort(S, EInvalidQuality)
  ELSE IF time_diff < 0 THEN Abort(S, EArithmeticError)
  ELSE
    Ok([S EXCEPT
          !.sessions[ssid] =
              [@ EXCEPT !.total_watch_time = HeartbeatWatchTime(@, time_diff),
                        !.last_heartbeat = current_time,
                        !.quality_level = quality_level]])

---------------------------------------------------------------------------
(* distribute_revenue *)

\* The balance is paid out but not emptied.
DistributeRemainder_NotEmptied(total_revenue, total_balance) == total_revenue

\* balance::split(&mut stream.total_revenue, total_balance): what is left.
DistributeRemainder(total_revenue, total_balance) == total_revenue - total_balance

\* One unit of every distribution is kept back and reaches nobody.
DistributeTransfer_KeepsFee(F, stream, total_balance) ==
  [F EXCEPT ![stream.creator] = @ + total_balance - 1]

\* transfer::public_transfer(revenue_coin, stream.creator)
DistributeTransfer(F, stream, total_balance) ==
  [F EXCEPT ![stream.creator] = @ + total_balance]

\* Revenue can be withdrawn only once the stream has ended.
distribute_revenue_EndedOnly(S, sid, sender) ==
  LET stream == S.streams[sid]
      total_balance == stream.total_revenue
  IN
  IF ~IsStreamOwner(stream, sender) THEN Abort(S, ENotStreamOwner)
  ELSE IF stream.status # STREAM_STATUS_ENDED THEN Abort(S, EStreamNotActive)
  ELSE IF total_balance = 0 THEN Ok(S)
  ELSE
    Ok([S EXCEPT
          !.streams[sid].total_revenue = DistributeRemainder(@, total_balance),
          !.funds = DistributeTransfer(@, stream, total_balance)])

distribute_revenue(S, sid, sender) ==
  LET stream == S.streams[sid]
      total_balance == stream.total_revenue
  IN
  IF ~IsStreamOwner(stream, sender) THEN Abort(S, ENotStreamOwner)
  ELSE IF total_balance = 0 THEN Ok(S)
  ELSE
    Ok([S EXCEPT
          !.streams[sid].total_revenue = DistributeRemainder(@, total_balance),
          !.funds = DistributeTransfer(@, stream, total_balance)])

---------------------------------------------------------------------------
(* Getter functions: each takes the object by immutable reference, so the  *)
(* state after the call is the state before it, and takes no caller.       *)

\* What a getter returns, next to the state it leaves.
Returned(S, value) == [err |-> 0, st |-> S, ret |-> value]

get_stream_info(S, sid) ==
  LET stream == S.streams[sid] IN
  Returned(S, <<stream.title, stream.description, stream.category,
                stream.status, stream.viewer_count, stream.total_revenue>>)

get_walrus_manifest(S, sid) ==
  Returned(S, S.streams[sid].hls_manifest_walrus_id)

\* table::borrow aborts when the segment number is not in the table.
get_walrus_segment(S, sid, segment_number) ==
  LET stream == S.streams[sid] IN
  IF segment_number \notin DOMAIN stream.walrus_segments
  THEN [err |-> ETableKeyMissing, st |-> S, ret |-> ""]
  ELSE Returned(S, stream.walrus_segments[segment_number])

\* A stream counts as live until it has ended.
is_stream_live_UntilEnded(S, sid) ==
  Returned(S, S.streams[sid].status # STREAM_STATUS_ENDED)

is_stream_live(S, sid) ==
  Returned(S, S.streams[sid].status = STREAM_STATUS_LIVE)

get_subscription_price(S, sid) ==
  Returned(S, S.streams[sid].subscription_price)

is_monetized(S, sid) == Returned(S, S.streams[sid].is_monetized)

get_viewer_session_info(S, ssid) ==
  LET session == S.sessions[ssid] IN
  Returned(S, <<session.viewer, session.total_watch_time,
                session.tips_sent, session.has_paid>>)

---------------------------------------------------------------------------
(* The state machine: one action per entry point, and the clock *)

Init ==
  /\ streams = <<>>
  /\ sessions = <<>>
  /\ registry = InitRegistry
  /\ funds = [a \in Addrs |-> InitFunds]
  /\ events = <<>>
  /\ now = 1

\* A call takes effect as its result says: the new state when it returned,
\* the state before it when it aborted.
Commit(r) ==
  /\ streams' = r.st.streams
  /\ sessions' = r.st.sessions
  /\ registry' = r.st.registry
  /\ funds' = r.st.funds
  /\ events' = r.st.events
  /\ UNCHANGED now

StreamIds == 1..Len(streams)

SessionIds == 1..Len(sessions)

\* Each action takes the sets its inputs are drawn from, and the most events
\* the log may hold before the call.
CreateStreamOf(senders, configs, maxStreams, maxEvents) ==
  \E sender \in senders, config \in configs :
    /\ Len(streams) < maxStreams
    /\ Len(events) < maxEvents
    /\ Commit(create_stream(State, config, sender, now))

StartStreamOf(senders, maxEvents) ==
  \E sender \in senders, sid \in StreamIds, hls \in Manifests :
    /\ Len(events) < maxEvents
    /\ Commit(start_stream(State, sid, hls, sender, now))

EndStreamOf(senders, maxEvents) ==
  \E sender \in senders, sid \in StreamIds :
    /\ Len(events) < maxEvents
    /\ Commit(end_stream(State, sid, sender, now))

StoreWalrusSegmentOf(senders, maxEvents) ==
  \E sender \in senders, sid \in StreamIds, n \in SegNums, blob \in Blobs :
    /\ Len(events) < maxEvents
    /\ Commit(store_walrus_segment(State, sid, n, blob, sender, now))

\* A coin passed in is one the sender holds.
JoinStreamOf(senders, payments, maxSessions, maxEvents) ==
  \E sender \in senders, sid \in StreamIds, payment \in payments :
    /\ Len(sessions) < maxSessions
    /\ Len(events) < maxEvents
    /\ Len(payment) > 0 => funds[sender] >= payment[1]
    /\ Commit(join_stream(State, sid, payment, sender, now))

SendTipOf(senders, tips, maxEvents) ==
  \E sender \in senders, sid \in StreamIds, ssid \in SessionIds, tip \in tips :
    /\ Len(events) < maxEvents
    /\ funds[sender] >= tip
    /\ Commit(send_tip(State, sid, ssid, tip, "msg", sender, now))

UpdateViewerHeartbeatOf(senders, qualities) ==
  \E sender \in senders, ssid \in SessionIds, q \in qualities :
    Commit(update_viewer_heartbeat(State, ssid, q, sender, now))

DistributeRevenueOf(senders) ==
  \E sender \in senders, sid \in StreamIds :
    Commit(distribute_revenue(State, sid, sender))

\* The clock object only moves forward.
Tick ==
  /\ now + 1 \in ClockValues
  /\ now' = now + 1
  /\ UNCHANGED <<streams, sessions, registry, funds, events>>

\* The getters, called by anyone on any stream or session.
GetStreamInfo ==
  \E sid \in StreamIds : Commit(get_stream_info(State, sid))

GetWalrusManifest ==
  \E sid \in StreamIds : Commit(get_walrus_manifest(State, sid))

GetWalrusSegment ==
  \E sid \in StreamIds, n \in SegNums :
    Commit(get_walrus_segment(State, sid, n))

IsStreamLive ==
  \E sid \in StreamIds : Commit(is_stream_live(State, sid))

GetSubscriptionPrice ==
  \E sid \in StreamIds : Commit(get_subscription_price(State, sid))

IsMonetized ==
  \E sid \in StreamIds : Commit(is_monetized(State, sid))

GetViewerSessionInfo ==
  \E ssid \in SessionIds : Commit(get_viewer_session_info(State, ssid))

CreateStream == CreateStreamOf(Creators, Configs, MaxStreams, MaxEvents)

StartStream == StartStreamOf(Addrs, MaxEvents)

EndStream == EndStreamOf(Addrs, MaxEvents)

StoreWalrusSegment == StoreWalrusSegmentOf(Addrs, MaxEvents)

JoinStream == JoinStreamOf(Addrs, Payments, MaxSessions, MaxEvents)

SendTip == SendTipOf(Addrs, TipAmounts, MaxEvents)

UpdateViewerHeartbeat == UpdateViewerHeartbeatOf(Addrs, HeartbeatQualities)

DistributeRevenue == DistributeRevenueOf(Addrs)

Next ==
  \/ CreateStream
  \/ StartStream
  \/ EndStream
  \/ StoreWalrusSegment
  \/ JoinStream
  \/ SendTip
  \/ UpdateViewerHeartbeat
  \/ DistributeRevenue
  \/ GetStreamInfo
  \/ GetWalrusManifest
  \/ GetWalrusSegment
  \/ IsStreamLive
  \/ GetSubscriptionPrice
  \/ IsMonetized
  \/ GetViewerSessionInfo
  \/ Tick

Spec == Init /\ [][Next]_vars

---------------------------------------------------------------------------
(* The end-to-end scenario: one monetized stream with tiers {720p, 1080p},  *)
(* price 10 and tips enabled, one viewer who joins paying 15 and tips 5.    *)
(* The calls are those of the scenario, made by any address in any order.   *)

E2ECreator == "alice"

E2EViewer == "bob"

NextE2E ==
  \/ CreateStreamOf({E2ECreator}, {CfgPaid}, 1, 5)
  \/ StartStreamOf(Addrs, 5)
  \/ JoinStreamOf({E2EViewer}, {<<15>>}, 1, 5)
  \/ SendTipOf(Addrs, {5}, 5)
  \/ EndStreamOf(Addrs, 5)
  \/ DistributeRevenueOf(Addrs)
  \/ Tick

SpecE2E == Init /\ [][NextE2E]_vars

---------------------------------------------------------------------------
(* Properties *)

LastEvent == events[Len(events)]

LiveStreams == {sid \in StreamIds : streams[sid].status = STREAM_STATUS_LIVE}

\* The coins an address can pass in: the amounts it holds.
Affordable(sender) == {a \in Amounts : funds[sender] >= a}

\* The coin options an address can pass to join_stream.
AffordablePayments(sender) == {<<>>} \cup {<<p>> : p \in Affordable(sender)}

\* The abort codes of the calls the inputs allow in the current state.
AbortCodes ==
  {create_stream(State, config, sender, now).err :
      config \in Configs, sender \in Addrs}
  \cup {start_stream(State, sid, hls, sender, now).err :
      sid \in StreamIds, hls \in Manifests, sender \in Addrs}
  \cup {end_stream(State, sid, sender, now).err :
      sid \in StreamIds, sender \in Addrs}
  \cup UNION {{store_walrus_segment(State, sid, n, blob, sender, now).err :
                  n \in SegNums, blob \in Blobs} :
              sid \in StreamIds, sender \in Addrs}
  \cup UNION {{join_stream(State, sid, payment, sender, now).err :
                  payment \in AffordablePayments(sender)} :
              sid \in StreamIds, sender \in Addrs}
  \cup UNION {{send_tip(State, sid, ssid, tip, "msg", sender, now).err :
                  tip \in Affordable(sender), ssid \in SessionIds} :
              sid \in StreamIds, sender \in Addrs}
  \cup {update_viewer_heartbeat(State, ssid, q, sender, now).err :
      ssid \in SessionIds, q \in HeartbeatQualities, sender \in Addrs}
  \cup {distribute_revenue(State, sid, sender).err :
      sid \in StreamIds, sender \in Addrs}

\* C1: across every step, a stream's status changes only by a successful
\* start_stream taking it from Created to Live or a successful end_stream
\* taking it from Live to Ended; nothing leaves Ended, goes back, skips Live
\* or enters Archived.
C1_StatusChangesOnlyByStartAndEnd ==
  [][\A sid \in StreamIds :
       streams'[sid].status # streams[sid].status =>
         \/ /\ streams[sid].status = STREAM_STATUS_CREATED
            /\ streams'[sid].status = STREAM_STATUS_LIVE
            /\ \E sender \in Addrs, hls \in Manifests :
                 start_stream(State, sid, hls, sender, now) = Ok(State')
         \/ /\ streams[sid].status = STREAM_STATUS_LIVE
            /\ streams'[sid].status = STREAM_STATUS_ENDED
            /\ \E sender \in Addrs :
                 end_stream(State, sid, sender, now) = Ok(State')]_vars

\* A stream that has gone through both transitions.
C1_Witness ==
  \E sid \in StreamIds :
    /\ streams[sid].status = STREAM_STATUS_ENDED
    /\ LastEvent.type = "StreamEnded"
    /\ \E i \in 1..Len(events) :
         events[i].type = "StreamStarted" /\ events[i].stream_id = sid

\* C2: the creator's start_stream on a stream that is not Created, and the
\* creator's end_stream on a stream that is not Live, abort with
\* EStreamNotActive and change nothing.
C2_WrongStatusAborts ==
  \A sid \in StreamIds :
    LET stream == streams[sid] IN
    /\ stream.status # STREAM_STATUS_CREATED =>
         \A hls \in Manifests :
           start_stream(State, sid, hls, stream.creator, now)
             = [err |-> EStreamNotActive, st |-> State]
    /\ stream.status # STREAM_STATUS_LIVE =>
         end_stream(State, sid, stream.creator, now)
           = [err |-> EStreamNotActive, st |-> State]

\* An ended stream, on which the creator's start and end both abort.
C2_Witness ==
  \E sid \in StreamIds :
    /\ streams[sid].status = STREAM_STATUS_ENDED
    /\ start_stream(State, sid, "manifest", streams[sid].creator, now).err
         = EStreamNotActive
    /\ end_stream(State, sid, streams[sid].creator, now).err = EStreamNotActive

\* C3: registry.active_streams is the number of streams whose status is Live.
C3_ActiveStreamsCountsLive ==
  registry.active_streams = Cardinality(LiveStreams)

\* Two streams, one of them started and ended: the counter went up and back.
C3_Witness ==
  /\ registry.total_streams = 2
  /\ registry.active_streams = 0
  /\ \E sid \in StreamIds : streams[sid].status = STREAM_STATUS_ENDED

\* C4: join_stream on a Live monetized stream with a coin of value
\* p >= subscription_price returns, adds exactly p to the balance, gives
\* nothing back to the viewer and creates a session with has_paid = TRUE.
C4_PaidJoinMergesFullPayment ==
  \A sid \in LiveStreams, sender \in Addrs :
    \A p \in Affordable(sender) :
      (streams[sid].is_monetized /\ p >= streams[sid].subscription_price) =>
        LET r == join_stream(State, sid, <<p>>, sender, now) IN
        /\ r.err = 0
        /\ r.st.streams[sid].total_revenue = streams[sid].total_revenue + p
        /\ r.st.funds = [funds EXCEPT ![sender] = @ - p]
        /\ Len(r.st.sessions) = Len(sessions) + 1
        /\ r.st.sessions[Len(r.st.sessions)].has_paid = TRUE

\* A join that paid 15 for a price of 10: the balance holds the whole 15.
C4_Witness ==
  /\ Len(events) > 0
  /\ LastEvent.type = "ViewerJoined"
  /\ LET stream == streams[LastEvent.stream_id] IN
     /\ stream.subscription_price = 10
     /\ stream.total_revenue = 15
     /\ sessions[Len(sessions)].has_paid
     /\ funds[sessions[Len(sessions)].viewer] = InitFunds - 15

\* C5: join_stream on a Live monetized stream with a coin of value
\* p < subscription_price aborts with EInsufficientPayment and changes
\* nothing: balance, viewer_count, sessions, the viewer's funds, the events.
C5_UnderpaidJoinAborts ==
  \A sid \in LiveStreams, sender \in Addrs :
    \A p \in Affordable(sender) :
      (streams[sid].is_monetized /\ p < streams[sid].subscription_price) =>
        join_stream(State, sid, <<p>>, sender, now)
          = [err |-> EInsufficientPayment, st |-> State]

\* A live monetized stream with a viewer on which a join paying 5 aborts.
C5_Witness ==
  \E sid \in LiveStreams, sender \in Addrs :
    /\ streams[sid].is_monetized
    /\ streams[sid].viewer_count > 0
    /\ 5 \in Affordable(sender)
    /\ join_stream(State, sid, <<5>>, sender, now).err = EInsufficientPayment

\* C6: join_stream on a stream that is Created or Ended aborts with
\* EStreamNotActive whatever the payment, and changes nothing.
C6_JoinNotLiveAborts ==
  \A sid \in StreamIds, sender \in Addrs :
    streams[sid].status \in {STREAM_STATUS_CREATED, STREAM_STATUS_ENDED} =>
      \A payment \in AffordablePayments(sender) :
        join_stream(State, sid, payment, sender, now)
          = [err |-> EStreamNotActive, st |-> State]

\* An ended monetized stream on which a join paying more than the price aborts.
C6_Witness ==
  \E sid \in StreamIds, sender \in Addrs :
    /\ streams[sid].status = STREAM_STATUS_ENDED
    /\ streams[sid].is_monetized
    /\ 15 \in Affordable(sender)
    /\ join_stream(State, sid, <<15>>, sender, now).err = EStreamNotActive

\* C7: send_tip by the session's viewer on a tip-enabled stream returns for
\* every amount a > 0, below the subscription price included; it adds a to
\* the stream's balance and to the session's tips_sent and changes no other
\* field of any stream or session.
C7_TipAddsExactlyAmount ==
  \A sid \in StreamIds, ssid \in SessionIds, sender \in Addrs :
    \A a \in Affordable(sender) :
      LET r == send_tip(State, sid, ssid, a, "msg", sender, now) IN
      /\ (streams[sid].tip_enabled /\ sessions[ssid].viewer = sender) => r.err = 0
      /\ r.err = 0 =>
           /\ r.st.streams = [streams EXCEPT ![sid].total_revenue = @ + a]
           /\ r.st.sessions = [sessions EXCEPT ![ssid].tips_sent = @ + a]

\* A tip of 5 sent on a stream whose subscription price is 10.
C7_Witness ==
  /\ Len(events) > 0
  /\ LastEvent.type = "TipSent"
  /\ LastEvent.amount = 5
  /\ streams[LastEvent.stream_id].subscription_price = 10
  /\ \E ssid \in SessionIds : sessions[ssid].tips_sent = 5

\* C8: the creator's distribute_revenue on a balance of 0 returns and changes
\* nothing; on a balance b > 0 it leaves the balance at 0 and adds b to the
\* creator's funds, and changes nothing else.
C8_DistributeEmptiesBalanceToCreator ==
  \A sid \in StreamIds :
    LET stream == streams[sid]
        b == stream.total_revenue
        r == distribute_revenue(State, sid, stream.creator)
    IN
    /\ b = 0 => r = [err |-> 0, st |-> State]
    /\ b > 0 =>
         /\ r.err = 0
         /\ r.st.streams[sid].total_revenue = 0
         /\ r.st.funds[stream.creator] = funds[stream.creator] + b
         /\ r.st = [State EXCEPT !.streams[sid].total_revenue = 0,
                                 !.funds[stream.creator] = @ + b]

\* A payment of 15 from another address has been distributed to the creator.
C8_Witness ==
  \E sid \in StreamIds :
    /\ streams[sid].viewer_count > 0
    /\ streams[sid].total_revenue = 0
    /\ funds[streams[sid].creator] = InitFunds + 15

EventTypes == [i \in 1..Len(events) |-> events[i].type]

ScenarioTypes ==
  <<"StreamCreated", "StreamStarted", "ViewerJoined", "TipSent", "StreamEnded">>

\* The first k calls of the scenario have returned, in its order, and
\* nothing has been paid out to the creator yet.
ScenarioAt(k) ==
  /\ Len(events) = k
  /\ EventTypes = SubSeq(ScenarioTypes, 1, k)
  /\ funds[E2ECreator] = InitFunds

\* C9: the scenario create_stream; start_stream; join_stream(15);
\* send_tip(5); end_stream; distribute_revenue passes through: Created with
\* balance 0; Live; viewer_count 1, balance 15, has_paid; balance 20,
\* tips_sent 5; Ended with StreamEnded reporting revenue 20; balance 0 with
\* the creator holding 20 more.
C9_EndToEndScenario ==
  /\ ScenarioAt(1) =>
       /\ streams[1].status = STREAM_STATUS_CREATED
       /\ streams[1].total_revenue = 0
  /\ ScenarioAt(2) => streams[1].status = STREAM_STATUS_LIVE
  /\ ScenarioAt(3) =>
       /\ streams[1].viewer_count = 1
       /\ streams[1].total_revenue = 15
       /\ sessions[1].has_paid = TRUE
  /\ ScenarioAt(4) =>
       /\ streams[1].total_revenue = 20
       /\ sessions[1].tips_sent = 5
  /\ ScenarioAt(5) =>
       /\ streams[1].status = STREAM_STATUS_ENDED
       /\ events[5].revenue = 20
       /\ streams[1].total_revenue = 20
  /\ ( /\ Len(events) = 5
       /\ EventTypes = ScenarioTypes
       /\ events[5].revenue = 20
       /\ funds[E2ECreator] # InitFunds ) =>
       /\ streams[1].total_revenue = 0
       /\ funds[E2ECreator] = InitFunds + 20

\* The end of the scenario: the five events in order, the balance paid out.
C9_Witness ==
  /\ Len(events) = 5
  /\ EventTypes = ScenarioTypes
  /\ streams[1].quality_levels = <<QUALITY_720P, QUALITY_1080P>>
  /\ streams[1].status = STREAM_STATUS_ENDED
  /\ events[5].revenue = 20
  /\ streams[1].total_revenue = 0
  /\ funds[E2ECreator] = InitFunds + 20
  /\ funds[E2EViewer] = InitFunds - 20

\* A step that is a returning call of a creator-only entry point on stream
\* sid, made by the stream's creator.
CreatorStep(sid) ==
  LET creator == streams[sid].creator IN
  \/ \E hls \in Manifests :
       start_stream(State, sid, hls, creator, now) = Ok(State')
  \/ end_stream(State, sid, creator, now) = Ok(State')
  \/ \E n \in SegNums, blob \in Blobs :
       store_walrus_segment(State, sid, n, blob, creator, now) = Ok(State')
  \/ distribute_revenue(State, sid, creator) = Ok(State')

\* Every creator-only call by another address aborts with ENotStreamOwner.
NonCreatorCallsAbort ==
  \A sid \in StreamIds, sender \in Addrs :
    sender # streams[sid].creator =>
      LET refused == [err |-> ENotStreamOwner, st |-> State] IN
      /\ \A hls \in Manifests :
           start_stream(State, sid, hls, sender, now) = refused
      /\ end_stream(State, sid, sender, now) = refused
      /\ \A n \in SegNums, blob \in Blobs :
           store_walrus_segment(State, sid, n, blob, sender, now) = refused
      /\ distribute_revenue(State, sid, sender) = refused

\* C11: start_stream, end_stream, store_walrus_segment and
\* distribute_revenue called by an address other than stream.creator abort
\* with ENotStreamOwner in every status and change nothing; and a step that
\* changes a stream's status, manifest or segment index, or lowers its
\* balance, is a call made by its creator.
C11_CreatorOnlyEntryPoints ==
  /\ []NonCreatorCallsAbort
  /\ [][\A sid \in StreamIds :
          ( \/ streams'[sid].status # streams[sid].status
            \/ streams'[sid].hls_manifest_walrus_id
                 # streams[sid].hls_manifest_walrus_id
            \/ streams'[sid].walrus_segments # streams[sid].walrus_segments
            \/ streams'[sid].total_revenue < streams[sid].total_revenue )
          => CreatorStep(sid)]_vars

\* A live stream holding revenue on which all four calls by a non-creator
\* abort with ENotStreamOwner.
C11_Witness ==
  \E sid \in StreamIds, sender \in Addrs :
    /\ sender # streams[sid].creator
    /\ streams[sid].status = STREAM_STATUS_LIVE
    /\ streams[sid].total_revenue > 0
    /\ start_stream(State, sid, "manifest", sender, now).err = ENotStreamOwner
    /\ end_stream(State, sid, sender, now).err = ENotStreamOwner
    /\ store_walrus_segment(State, sid, 0, "blobA", sender, now).err
         = ENotStreamOwner
    /\ distribute_revenue(State, sid, sender).err = ENotStreamOwner

\* A step that is a returning heartbeat or tip on session ssid, made by the
\* session's viewer.
ViewerStep(ssid) ==
  LET viewer == sessions[ssid].viewer IN
  \/ \E q \in HeartbeatQualities :
       /\ update_viewer_heartbeat(State, ssid, q, viewer, now).err = 0
       /\ update_viewer_heartbeat(State, ssid, q, viewer, now).st = State'
  \/ \E sid \in StreamIds, tip \in Amounts :
       send_tip(State, sid, ssid, tip, "msg", viewer, now) = Ok(State')

\* C12 as stated: update_viewer_heartbeat and send_tip by an address other
\* than session.viewer abort with ENotStreamOwner, on every stream.
C12_NonViewerAlwaysNotAuthorized ==
  \A ssid \in SessionIds, sender \in Addrs :
    sender # sessions[ssid].viewer =>
      /\ \A q \in HeartbeatQualities :
           update_viewer_heartbeat(State, ssid, q, sender, now).err
             = ENotStreamOwner
      /\ \A sid \in StreamIds, tip \in Affordable(sender) :
           send_tip(State, sid, ssid, tip, "msg", sender, now).err
             = ENotStreamOwner

\* Calls on a session by another address abort and change nothing: the
\* heartbeat with ENotStreamOwner, the tip with ENotStreamOwner on a
\* tip-enabled stream and with EStreamNotActive on a tip-disabled one.
NonViewerCallsAbort ==
  \A ssid \in SessionIds, sender \in Addrs :
    sender # sessions[ssid].viewer =>
      /\ \A q \in HeartbeatQualities :
           update_viewer_heartbeat(State, ssid, q, sender, now)
             = [err |-> ENotStreamOwner, st |-> State]
      /\ \A sid \in StreamIds, tip \in Affordable(sender) :
           send_tip(State, sid, ssid, tip, "msg", sender, now)
             = [err |-> IF streams[sid].tip_enabled
                        THEN ENotStreamOwner ELSE EStreamNotActive,
                st |-> State]

\* C12 (amended): update_viewer_heartbeat and send_tip by an address other
\* than session.viewer abort and leave everything unchanged, with
\* ENotStreamOwner except that a tip on a tip-disabled stream aborts with
\* EStreamNotActive; and a step that changes a session's total_watch_time,
\* last_heartbeat, quality_level or tips_sent is a call made by its viewer.
C12_SessionChangedOnlyByViewer ==
  /\ []NonViewerCallsAbort
  /\ [][\A ssid \in SessionIds :
          ( \/ sessions'[ssid].total_watch_time # sessions[ssid].total_watch_time
            \/ sessions'[ssid].last_heartbeat # sessions[ssid].last_heartbeat
            \/ sessions'[ssid].quality_level # sessions[ssid].quality_level
            \/ sessions'[ssid].tips_sent # sessions[ssid].tips_sent )
          => ViewerStep(ssid)]_vars

\* A session, a tip-enabled stream on which another address's tip aborts
\* with ENotStreamOwner, and a tip-disabled one on which it aborts with
\* EStreamNotActive.
C12_Witness ==
  \E ssid \in SessionIds, sender \in Addrs, sid \in StreamIds, other \in StreamIds :
    /\ sender # sessions[ssid].viewer
    /\ 5 \in Affordable(sender)
    /\ streams[sid].tip_enabled
    /\ ~streams[other].tip_enabled
    /\ send_tip(State, sid, ssid, 5, "msg", sender, now).err = ENotStreamOwner
    /\ send_tip(State, other, ssid, 5, "msg", sender, now).err = EStreamNotActive
    /\ update_viewer_heartbeat(State, ssid, QUALITY_4K, sender, now).err
         = ENotStreamOwner

\* Tier lists around the maximum tier, each carried by an otherwise valid
\* configuration.
TierLists ==
  {<<>>, <<QUALITY_4K>>, <<QUALITY_4K + 1>>, <<QUALITY_240P, QUALITY_4K>>,
   <<QUALITY_4K, QUALITY_4K + 1>>, <<QUALITY_4K + 1, QUALITY_240P>>,
   <<QUALITY_720P, QUALITY_1080P>>, <<QUALITY_720P, QUALITY_4K + 1>>}

TierConfigs ==
  Configs \cup {[CfgPaid EXCEPT !.quality_levels = ql] : ql \in TierLists}

\* Tier lists and heartbeat tiers are accepted up to QUALITY_4K, itself
\* included, and refused above it with nothing changed.
TiersCheckedAgainstMaximum ==
  /\ \A config \in TierConfigs, sender \in Addrs :
       LET ql == config.quality_levels
           r == create_stream(State, config, sender, now)
       IN IF \A i \in 1..Len(ql) : ql[i] <= QUALITY_4K
          THEN /\ r.err = 0
               /\ r.st.registry.total_streams = registry.total_streams + 1
               /\ r.st.streams[Len(streams) + 1].quality_levels = ql
          ELSE r = [err |-> EInvalidQuality, st |-> State]
  /\ \A ssid \in SessionIds :
       LET viewer == sessions[ssid].viewer
           atMax == update_viewer_heartbeat(State, ssid, QUALITY_4K, viewer, now)
       IN /\ atMax.err = 0
          /\ atMax.st.sessions[ssid].quality_level = QUALITY_4K
          /\ \A q \in (QUALITY_4K + 1)..(QUALITY_4K + 2) :
               update_viewer_heartbeat(State, ssid, q, viewer, now)
                 = [err |-> EInvalidQuality, st |-> State]

\* C13: create_stream succeeds when every requested tier is <= QUALITY_4K,
\* the maximum included, and aborts with EInvalidQuality, changing nothing,
\* when some tier exceeds it; update_viewer_heartbeat by the session's viewer
\* succeeds with quality_level = QUALITY_4K and aborts with EInvalidQuality,
\* changing nothing, for a larger value.
C13_QualityBoundary == []TiersCheckedAgainstMaximum

\* A stream created with the maximum tier and a session whose heartbeat set
\* the maximum tier, in a state where a tier above it is refused by both.
C13_Witness ==
  /\ \E sid \in StreamIds : streams[sid].quality_levels = <<QUALITY_4K>>
  /\ \E ssid \in SessionIds :
       /\ sessions[ssid].quality_level = QUALITY_4K
       /\ update_viewer_heartbeat(State, ssid, QUALITY_4K + 1,
                                  sessions[ssid].viewer, now).err
            = EInvalidQuality
  /\ create_stream(State, CfgBad, "alice", now).err = EInvalidQuality

\* C14: join_stream on a live non-monetized stream with a payment succeeds,
\* returns the whole payment to the caller, leaves the balance unchanged and
\* records has_paid = FALSE; and in every successful join_stream the coin
\* supplied is either merged into the balance in full or returned in full,
\* so the caller's holdings plus the balance are conserved.
C14_UnconsumedPaymentReturned ==
  \A sid \in LiveStreams, sender \in Addrs :
    \A p \in Affordable(sender) :
      LET r == join_stream(State, sid, <<p>>, sender, now)
          merged == r.st.streams[sid].total_revenue - streams[sid].total_revenue
          spent == funds[sender] - r.st.funds[sender]
      IN /\ ~streams[sid].is_monetized =>
              /\ r.err = 0
              /\ r.st.funds = funds
              /\ merged = 0
              /\ r.st.sessions[Len(r.st.sessions)].has_paid = FALSE
         /\ r.err = 0 =>
              /\ merged \in {0, p}
              /\ spent = merged
              /\ \A a \in Addrs \ {sender} : r.st.funds[a] = funds[a]

\* A live non-monetized stream already joined, on which a join with a coin
\* of 15 gives the coin back and leaves the balance at 0.
C14_Witness ==
  \E sid \in LiveStreams, sender \in Addrs :
    /\ ~streams[sid].is_monetized
    /\ streams[sid].viewer_count > 0
    /\ 15 \in Affordable(sender)
    /\ join_stream(State, sid, <<15>>, sender, now).err = 0
    /\ join_stream(State, sid, <<15>>, sender, now).st.funds = funds
    /\ join_stream(State, sid, <<15>>, sender, now).st.streams[sid].total_revenue = 0

\* Every successful join_stream, with any coin option the caller can pass,
\* raises the stream's viewer_count by exactly 1 and no other stream's.
JoinCountsOneViewer ==
  \A sid \in StreamIds, sender \in Addrs :
    \A payment \in AffordablePayments(sender) :
      LET r == join_stream(State, sid, payment, sender, now) IN
      r.err = 0 =>
        \A other \in StreamIds :
          r.st.streams[other].viewer_count
            = streams[other].viewer_count + (IF other = sid THEN 1 ELSE 0)

\* C15: every successful join_stream increases the stream's viewer_count by
\* exactly 1, whether or not a payment was supplied or consumed, and no step
\* of any entry point decreases a viewer_count.
C15_ViewerCountOnlyGrowsByJoin ==
  /\ []JoinCountsOneViewer
  /\ [][\A sid \in StreamIds :
          streams'[sid].viewer_count >= streams[sid].viewer_count]_vars

\* An ended stream whose revenue was distributed still counts the viewer
\* who joined it.
C15_Witness ==
  \E sid \in StreamIds :
    /\ streams[sid].status = STREAM_STATUS_ENDED
    /\ streams[sid].viewer_count = 1
    /\ streams[sid].total_revenue = 0
    /\ funds[streams[sid].creator] > InitFunds

\* C16: join_stream on a live monetized stream with no payment succeeds:
\* viewer_count rises by 1, the balance and every holding are unchanged and
\* the new session has has_paid = FALSE.
C16_MonetizedJoinWithoutPayment ==
  \A sid \in LiveStreams, sender \in Addrs :
    streams[sid].is_monetized =>
      LET r == join_stream(State, sid, <<>>, sender, now) IN
      /\ r.err = 0
      /\ r.st.streams[sid].viewer_count = streams[sid].viewer_count + 1
      /\ r.st.streams[sid].total_revenue = streams[sid].total_revenue
      /\ r.st.funds = funds
      /\ Len(r.st.sessions) = Len(sessions) + 1
      /\ r.st.sessions[Len(sessions) + 1].has_paid = FALSE
      /\ r.st.sessions[Len(sessions) + 1].viewer = sender

\* A live monetized stream with one viewer, nothing paid, whose session is
\* unpaid.
C16_Witness ==
  \E sid \in LiveStreams, ssid \in SessionIds :
    /\ streams[sid].is_monetized
    /\ streams[sid].viewer_count = 1
    /\ streams[sid].total_revenue = 0
    /\ sessions[ssid].stream_id = sid
    /\ ~sessions[ssid].has_paid
    /\ \A a \in Addrs : funds[a] = InitFunds

\* C17: a successful end_stream changes nothing of the stream but status and
\* ended_at, so its balance and viewer_count stay as they were, and the
\* StreamEnded event it appends carries duration = ended_at - started_at,
\* the stream's viewer_count and the balance it holds at that moment.
C17_EndKeepsBalanceAndReportsIt ==
  \A sid \in LiveStreams :
    LET stream == streams[sid]
        r == end_stream(State, sid, stream.creator, now)
        ended == r.st.streams[sid]
        event == r.st.events[Len(r.st.events)]
    IN /\ r.err = 0
       /\ ended = [stream EXCEPT !.status = STREAM_STATUS_ENDED,
                                 !.ended_at = now]
       /\ ended.total_revenue = stream.total_revenue
       /\ ended.viewer_count = stream.viewer_count
       /\ r.st.funds = funds
       /\ Len(r.st.events) = Len(events) + 1
       /\ event = StreamEnded(sid, stream.creator,
                              ended.ended_at - ended.started_at,
                              ended.viewer_count, ended.total_revenue, now)

\* A stream started at 1 and ended at 2 with one paying viewer: the event
\* reports duration 1, 1 viewer and revenue 15, and the stream still holds
\* its balance.
C17_Witness ==
  /\ Len(events) > 0
  /\ LastEvent.type = "StreamEnded"
  /\ LastEvent.duration = 1
  /\ LastEvent.total_viewers = 1
  /\ LastEvent.revenue = 15
  /\ streams[LastEvent.stream_id].status = STREAM_STATUS_ENDED
  /\ streams[LastEvent.stream_id].total_revenue = 15
  /\ streams[LastEvent.stream_id].viewer_count = 1

\* The balances of all streams in state st are those of the current state.
BalancesKept(st) ==
  \A sid \in StreamIds :
    st.streams[sid].total_revenue = streams[sid].total_revenue

\* No balance is negative, and create_stream, start_stream, end_stream,
\* store_walrus_segment and update_viewer_heartbeat leave every existing
\* stream's balance unchanged.
BalancesUntouchedByOtherCalls ==
  /\ \A sid \in StreamIds : streams[sid].total_revenue >= 0
  /\ \A sender \in Addrs :
       /\ \A config \in Configs :
            BalancesKept(create_stream(State, config, sender, now).st)
       /\ \A sid \in StreamIds :
            /\ \A hls \in Manifests :
                 BalancesKept(start_stream(State, sid, hls, sender, now).st)
            /\ BalancesKept(end_stream(State, sid, sender, now).st)
            /\ \A n \in SegNums, blob \in Blobs :
                 BalancesKept(
                   store_walrus_segment(State, sid, n, blob, sender, now).st)
       /\ \A ssid \in SessionIds, q \in HeartbeatQualities :
            BalancesKept(
              update_viewer_heartbeat(State, ssid, q, sender, now).st)

\* C18: a stream's balance rises only in a step that is a successful
\* join_stream consuming a payment on that stream or a successful send_tip to
\* it, by the amount paid; it falls only in a step that is a successful
\* distribute_revenue of that stream; create_stream, start_stream, end_stream,
\* store_walrus_segment and update_viewer_heartbeat leave it unchanged; and
\* it is never negative.
C18_BalanceChangesOnlyByPayTipDistribute ==
  /\ []BalancesUntouchedByOtherCalls
  /\ [][\A sid \in StreamIds :
          LET before == streams[sid].total_revenue
              after == streams'[sid].total_revenue
          IN /\ after > before =>
                  \E sender \in Addrs, p \in Amounts :
                    /\ after = before + p
                    /\ \/ /\ streams[sid].is_monetized
                          /\ join_stream(State, sid, <<p>>, sender, now)
                               = Ok(State')
                       \/ \E ssid \in SessionIds :
                            send_tip(State, sid, ssid, p, "msg", sender, now)
                              = Ok(State')
             /\ after < before =>
                  /\ after = 0
                  /\ \E sender \in Addrs :
                       distribute_revenue(State, sid, sender) = Ok(State')]_vars

\* A stream whose balance of 20 came from a payment of 15 and a tip of 5.
C18_Witness ==
  \E sid \in StreamIds, ssid \in SessionIds :
    /\ streams[sid].total_revenue = 20
    /\ sessions[ssid].stream_id = sid
    /\ sessions[ssid].has_paid
    /\ sessions[ssid].tips_sent = 5
    /\ funds[sessions[ssid].viewer] = InitFunds - 20

\* C19: in every reachable state registry.active_streams <=
\* registry.total_streams, and wherever a stream is live active_streams >= 1,
\* so the decrement in end_stream never underflows: no end_stream call
\* aborts with an arithmetic error.
C19_ActiveAtMostTotal ==
  /\ registry.active_streams >= 0
  /\ registry.active_streams <= registry.total_streams
  /\ LiveStreams # {} => registry.active_streams >= 1
  /\ \A sid \in StreamIds, sender \in Addrs :
       end_stream(State, sid, sender, now).err # EArithmeticError

\* Both streams created, one ended after being live: active_streams is back
\* at 0 under total_streams = 2.
C19_Witness ==
  /\ registry.total_streams = 2
  /\ registry.active_streams = 0
  /\ \E sid \in StreamIds : streams[sid].status = STREAM_STATUS_ENDED
  /\ Len(events) > 0
  /\ \E k \in 1..Len(events) : events[k].type = "StreamEnded"

\* The number of positions of bucket that hold stream_id.
Occurrences(bucket, stream_id) ==
  Cardinality({i \in 1..Len(bucket) : bucket[i] = stream_id})

RECURSIVE SumOfBucketLengths(_, _)
SumOfBucketLengths(category_streams, categories) ==
  IF categories = {} THEN 0
  ELSE LET c == CHOOSE x \in categories : TRUE
       IN Len(category_streams[c])
            + SumOfBucketLengths(category_streams, categories \ {c})

\* C20: in every reachable state registry.total_streams is the number of
\* streams created, every stream's id occurs exactly once in the bucket of
\* its own category and in no other bucket, and the bucket lengths sum to
\* total_streams; and every successful create_stream yields a stream in
\* Created with balance 0, viewer_count 0, moderation_score 100, started_at
\* 0, ended_at 0 and an empty manifest reference.
C20_RegistryIndexesEveryStreamOnce ==
  LET cs == registry.category_streams IN
  /\ registry.total_streams = Len(streams)
  /\ \A sid \in StreamIds :
       /\ streams[sid].category \in DOMAIN cs
       /\ \A c \in DOMAIN cs :
            Occurrences(cs[c], sid)
              = (IF c = streams[sid].category THEN 1 ELSE 0)
  /\ SumOfBucketLengths(cs, DOMAIN cs) = registry.total_streams
  /\ \A config \in Configs, sender \in Addrs :
       LET r == create_stream(State, config, sender, now)
           created == r.st.streams[Len(streams) + 1]
       IN r.err = 0 =>
            /\ Len(r.st.streams) = Len(streams) + 1
            /\ created.creator = sender
            /\ created.status = STREAM_STATUS_CREATED
            /\ created.total_revenue = 0
            /\ created.viewer_count = 0
            /\ created.moderation_score = 100
            /\ created.started_at = 0
            /\ created.ended_at = 0
            /\ created.hls_manifest_walrus_id = ""
            /\ created.walrus_segments = <<>>

\* Two streams of the same category share one bucket, in creation order,
\* and the second is still as created.
C20_Witness ==
  /\ registry.total_streams = 2
  /\ \E c \in DOMAIN registry.category_streams :
       registry.category_streams[c] = <<1, 2>>
  /\ streams[1].status = STREAM_STATUS_LIVE
  /\ streams[2].status = STREAM_STATUS_CREATED
  /\ streams[2].total_revenue = 0
  /\ streams[2].moderation_score = 100

\* Sequence s is an initial part of sequence t.
IsPrefix(s, t) == Len(s) <= Len(t) /\ SubSeq(t, 1, Len(s)) = s

\* Every stream, ended ones included, has its id in its category's bucket.
EveryStreamStaysIndexed ==
  \A sid \in StreamIds :
    /\ streams[sid].category \in DOMAIN registry.category_streams
    /\ \E i \in 1..Len(registry.category_streams[streams[sid].category]) :
         registry.category_streams[streams[sid].category][i] = sid

\* C21: across every step each category bucket's previous contents are a
\* prefix of its new contents and total_streams does not decrease; so in
\* every state a stream's id is still in its bucket, also after the stream
\* has ended.
C21_BucketsAppendOnly ==
  /\ []EveryStreamStaysIndexed
  /\ [][/\ \A c \in DOMAIN registry.category_streams :
             /\ c \in DOMAIN registry'.category_streams
             /\ IsPrefix(registry.category_streams[c],
                         registry'.category_streams[c])
        /\ registry'.total_streams >= registry.total_streams]_vars

\* A stream that has ended is still first in its bucket, ahead of a stream
\* created after it.
C21_Witness ==
  /\ Len(streams) = 2
  /\ streams[1].status = STREAM_STATUS_ENDED
  /\ streams[2].category = streams[1].category
  /\ streams[2].created_at >= streams[1].ended_at
  /\ registry.category_streams[streams[1].category] = <<1, 2>>
  /\ registry.total_streams = 2

\* The timestamps a stream may carry in each status.
TimestampsByStatus ==
  \A sid \in StreamIds :
    LET stream == streams[sid] IN
    /\ stream.created_at <= now
    /\ stream.status = STREAM_STATUS_CREATED =>
         stream.started_at = 0 /\ stream.ended_at = 0
    /\ stream.status = STREAM_STATUS_LIVE =>
         /\ stream.ended_at = 0
         /\ stream.created_at <= stream.started_at
         /\ stream.started_at <= now
    /\ stream.status = STREAM_STATUS_ENDED =>
         /\ stream.created_at <= stream.started_at
         /\ stream.started_at <= stream.ended_at
         /\ stream.ended_at <= now

\* C22: under the non-decreasing clock, a Created stream has started_at = 0
\* and ended_at = 0, a Live one ended_at = 0, and once set created_at <=
\* started_at <= ended_at; created_at never changes, started_at changes only
\* from 0 to the clock value in a successful start_stream, ended_at only
\* from 0 to the clock value in a successful end_stream, and neither is
\* rewritten.
C22_TimestampsSetOnce ==
  /\ []TimestampsByStatus
  /\ [][/\ now' >= now
        /\ \A sid \in StreamIds :
             LET stream == streams[sid]
                 after == streams'[sid]
             IN /\ after.created_at = stream.created_at
                /\ after.started_at # stream.started_at =>
                     /\ stream.started_at = 0
                     /\ after.started_at = now
                     /\ \E hls \in Manifests :
                          start_stream(State, sid, hls, stream.creator, now)
                            = Ok(State')
                /\ after.ended_at # stream.ended_at =>
                     /\ stream.ended_at = 0
                     /\ after.ended_at = now
                     /\ end_stream(State, sid, stream.creator, now)
                          = Ok(State')]_vars

\* A stream created and started at 1 and ended at 2, next to one still
\* Created with both timestamps 0.
C22_Witness ==
  \E sid \in StreamIds, other \in StreamIds :
    /\ streams[sid].status = STREAM_STATUS_ENDED
    /\ streams[sid].created_at = 1
    /\ streams[sid].started_at = 1
    /\ streams[sid].ended_at = 2
    /\ streams[other].status = STREAM_STATUS_CREATED
    /\ streams[other].created_at = 2
    /\ streams[other].started_at = 0
    /\ streams[other].ended_at = 0

\* C24: every getter, which takes no caller and so answers any address,
\* returns the field values stored at that moment (is_stream_live exactly
\* status = Live; get_walrus_segment the blob stored under a number in the
\* index) and leaves the whole state, event log included, as it was.
C24_GettersArePureProjections ==
  /\ \A sid \in StreamIds :
       LET stream == streams[sid] IN
       /\ get_stream_info(State, sid)
            = [err |-> 0, st |-> State,
               ret |-> <<stream.title, stream.description, stream.category,
                         stream.status, stream.viewer_count,
                         stream.total_revenue>>]
       /\ get_walrus_manifest(State, sid)
            = [err |-> 0, st |-> State, ret |-> stream.hls_manifest_walrus_id]
       /\ \A n \in DOMAIN stream.walrus_segments :
            get_walrus_segment(State, sid, n)
              = [err |-> 0, st |-> State, ret |-> stream.walrus_segments[n]]
       /\ \A n \in 0..1 : get_walrus_segment(State, sid, n).st = State
       /\ is_stream_live(State, sid)
            = [err |-> 0, st |-> State,
               ret |-> (stream.status = STREAM_STATUS_LIVE)]
       /\ get_subscription_price(State, sid)
            = [err |-> 0, st |-> State, ret |-> stream.subscription_price]
       /\ is_monetized(State, sid)
            = [err |-> 0, st |-> State, ret |-> stream.is_monetized]
  /\ \A ssid \in SessionIds :
       LET session == sessions[ssid] IN
       get_viewer_session_info(State, ssid)
         = [err |-> 0, st |-> State,
            ret |-> <<session.viewer, session.total_watch_time,
                      session.tips_sent, session.has_paid>>]

\* A live stream with a manifest, a stored segment and a paid session, next
\* to a stream not yet started: the getters tell them apart.
C24_Witness ==
  \E sid \in StreamIds, ssid \in SessionIds :
    /\ is_stream_live(State, sid).ret
    /\ get_walrus_manifest(State, sid).ret = "manifest"
    /\ get_walrus_segment(State, sid, 0).ret = "blobA"
    /\ get_stream_info(State, sid).ret[5] = 1
    /\ get_stream_info(State, sid).ret[6] = 15
    /\ is_monetized(State, sid).ret
    /\ get_subscription_price(State, sid).ret = 10
    /\ sessions[ssid].stream_id = sid
    /\ get_viewer_session_info(State, ssid).ret[4]

\* Segment numbers a call may name, stored or not.
SegmentNumbers == 0..1

\* C25: store_walrus_segment by the creator with a segment number not yet
\* in the index succeeds whatever the stream's status, adds exactly that
\* entry, appends one WalrusSegmentStored event, and changes no other field
\* of the stream, no other stream, and nothing of the registry, the sessions
\* or the holdings.
C25_StoreNewSegmentInAnyStatus ==
  \A sid \in StreamIds, n \in SegmentNumbers, blob \in Blobs :
    LET stream == streams[sid]
        r == store_walrus_segment(State, sid, n, blob, stream.creator, now)
        stored == r.st.streams[sid].walrus_segments
    IN n \notin DOMAIN stream.walrus_segments =>
         /\ r.err = 0
         /\ DOMAIN stored = DOMAIN stream.walrus_segments \cup {n}
         /\ stored[n] = blob
         /\ \A m \in DOMAIN stream.walrus_segments :
              stored[m] = stream.walrus_segments[m]
         /\ [r.st.streams[sid] EXCEPT !.walrus_segments = stream.walrus_segments]
              = stream
         /\ \A other \in StreamIds \ {sid} : r.st.streams[other] = streams[other]
         /\ Len(r.st.streams) = Len(streams)
         /\ r.st.registry = registry
         /\ r.st.sessions = sessions
         /\ r.st.funds = funds
         /\ r.st.events
              = Append(events, WalrusSegmentStored(sid, n, blob, now))

\* The last call stored the first segment of a stream that had already
\* ended.
C25_Witness ==
  /\ Len(events) > 0
  /\ LastEvent.type = "WalrusSegmentStored"
  /\ streams[LastEvent.stream_id].status = STREAM_STATUS_ENDED
  /\ streams[LastEvent.stream_id].walrus_segments
       = (LastEvent.segment_number :> LastEvent.walrus_blob_id)
  /\ \A k \in 1..(Len(events) - 1) : events[k].type # "WalrusSegmentStored"

\* A call naming a segment number already in the index aborts and changes
\* nothing, whatever blob it carries; a second identical call after a
\* successful one does so too.
DuplicateSegmentRejected ==
  \A sid \in StreamIds, n \in SegmentNumbers, blob \in Blobs :
    LET creator == streams[sid].creator
        r == store_walrus_segment(State, sid, n, blob, creator, now)
    IN IF n \in DOMAIN streams[sid].walrus_segments
       THEN r = [err |-> ETableKeyExists, st |-> State]
       ELSE /\ r.err = 0
            /\ store_walrus_segment(r.st, sid, n, blob, creator, now)
                 = [err |-> ETableKeyExists, st |-> r.st]

\* C26: store_walrus_segment for a segment number already present aborts
\* instead of overwriting, so a second identical call fails and appends no
\* event; and across every step a segment number in the index stays there
\* with the same blob reference.
C26_SegmentIndexAppendOnly ==
  /\ []DuplicateSegmentRejected
  /\ [][\A sid \in StreamIds :
          \A n \in DOMAIN streams[sid].walrus_segments :
            /\ n \in DOMAIN streams'[sid].walrus_segments
            /\ streams'[sid].walrus_segments[n]
                 = streams[sid].walrus_segments[n]]_vars

\* Segment 0 holds blobA, and the creator's call to store blobB, or blobA
\* again, under 0 is refused; the log holds the one event of the first call.
C26_Witness ==
  \E sid \in StreamIds :
    /\ 0 \in DOMAIN streams[sid].walrus_segments
    /\ streams[sid].walrus_segments[0] = "blobA"
    /\ store_walrus_segment(State, sid, 0, "blobB", streams[sid].creator, now).err
         = ETableKeyExists
    /\ store_walrus_segment(State, sid, 0, "blobA", streams[sid].creator, now).err
         = ETableKeyExists
    /\ Cardinality({k \in 1..Len(events) :
                      /\ events[k].type = "WalrusSegmentStored"
                      /\ events[k].stream_id = sid}) = 1

\* A join that returns records has_paid exactly when the stream is
\* monetized and a coin of at least the price was passed; a paid session
\* belongs to a monetized stream.
PaidMeansPricePaid ==
  /\ \A ssid \in SessionIds :
       sessions[ssid].has_paid => streams[sessions[ssid].stream_id].is_monetized
  /\ \A sid \in StreamIds, sender \in Addrs :
       \A payment \in AffordablePayments(sender) :
         LET r == join_stream(State, sid, payment, sender, now) IN
         r.err = 0 =>
           r.st.sessions[Len(sessions) + 1].has_paid
             = ( /\ streams[sid].is_monetized
                 /\ Len(payment) > 0
                 /\ IF Len(payment) > 0
                    THEN payment[1] >= streams[sid].subscription_price
                    ELSE FALSE )

\* C27: a session's has_paid is fixed when join_stream creates it: no step
\* of any entry point changes it afterwards; and a session is created with
\* has_paid = TRUE only by a join_stream on a monetized stream with a coin of
\* at least subscription_price.
C27_HasPaidFixedAtJoin ==
  /\ []PaidMeansPricePaid
  /\ [][/\ \A ssid \in SessionIds :
             sessions'[ssid].has_paid = sessions[ssid].has_paid
        /\ ( /\ Len(sessions') > Len(sessions)
             /\ sessions'[Len(sessions')].has_paid )
           => \E sid \in StreamIds, sender \in Addrs, p \in Amounts :
                /\ streams[sid].is_monetized
                /\ p >= streams[sid].subscription_price
                /\ join_stream(State, sid, <<p>>, sender, now) = Ok(State')]_vars

\* A session that joined a monetized stream without paying, then tipped and
\* sent a heartbeat, is still unpaid.
C27_Witness ==
  \E ssid \in SessionIds :
    /\ streams[sessions[ssid].stream_id].is_monetized
    /\ ~sessions[ssid].has_paid
    /\ sessions[ssid].tips_sent = 5
    /\ sessions[ssid].total_watch_time = 1
    /\ sessions[ssid].quality_level = QUALITY_4K

\* Clock values a heartbeat may arrive at: now, the next tick, and long
\* after.
HeartbeatTimes == {now, now + 1, now + 1000}

\* A heartbeat by the session's viewer with a supported tier succeeds at any
\* later time, whatever the status of the session's stream, and changes
\* exactly three fields of that session.
HeartbeatAddsElapsedTime ==
  \A ssid \in SessionIds, q \in QUALITY_240P..QUALITY_4K, t \in HeartbeatTimes :
    LET session == sessions[ssid] IN
    update_viewer_heartbeat(State, ssid, q, session.viewer, t)
      = [err |-> 0,
         st |-> [State EXCEPT
                   !.sessions[ssid] =
                     [session EXCEPT
                        !.total_watch_time = @ + (t - session.last_heartbeat),
                        !.last_heartbeat = t,
                        !.quality_level = q]]]

\* C28: a successful update_viewer_heartbeat at time t adds exactly
\* t - last_heartbeat, however large, to total_watch_time, sets
\* last_heartbeat = t and quality_level to the given tier, and leaves every
\* stream, the registry, the holdings and the event log unchanged; it
\* succeeds whatever the status of the session's stream; and under the
\* non-decreasing clock no step lowers a session's total_watch_time.
C28_HeartbeatAccumulatesWatchTime ==
  /\ []HeartbeatAddsElapsedTime
  /\ [][\A ssid \in SessionIds :
          sessions'[ssid].total_watch_time
            >= sessions[ssid].total_watch_time]_vars

\* A session whose stream ended at 1, with one unit of watch time from a
\* heartbeat at 2, after the end.
C28_Witness ==
  \E ssid \in SessionIds :
    /\ streams[sessions[ssid].stream_id].status = STREAM_STATUS_ENDED
    /\ streams[sessions[ssid].stream_id].ended_at = 1
    /\ sessions[ssid].started_at = 1
    /\ sessions[ssid].last_heartbeat = 2
    /\ sessions[ssid].total_watch_time = 1
    /\ sessions[ssid].quality_level = QUALITY_4K

\* C29: every successful join_stream leaves the existing sessions as they
\* are and adds exactly one, with viewer = the caller, stream_id = the joined
\* stream, started_at = last_heartbeat = now, total_watch_time = 0,
\* tips_sent = 0 and quality_level = QUALITY_720P whatever the stream's
\* quality_levels; a second join by the same viewer adds a second session
\* and raises viewer_count again.
C29_JoinCreatesOneSession ==
  \A sid \in StreamIds, sender \in Addrs :
    \A payment \in AffordablePayments(sender) :
      LET r == join_stream(State, sid, payment, sender, now)
          created == r.st.sessions[Len(sessions) + 1]
          again == join_stream(r.st, sid, <<>>, sender, now)
      IN r.err = 0 =>
           /\ Len(r.st.sessions) = Len(sessions) + 1
           /\ SubSeq(r.st.sessions, 1, Len(sessions)) = sessions
           /\ [created EXCEPT !.has_paid = FALSE]
                = [stream_id |-> sid,
                   viewer |-> sender,
                   started_at |-> now,
                   last_heartbeat |-> now,
                   total_watch_time |-> 0,
                   quality_level |-> QUALITY_720P,
                   has_paid |-> FALSE,
                   tips_sent |-> 0]
           /\ again.err = 0
           /\ Len(again.st.sessions) = Len(sessions) + 2
           /\ again.st.sessions[Len(sessions) + 2].viewer = sender
           /\ again.st.sessions[Len(sessions) + 2].stream_id = sid
           /\ again.st.streams[sid].viewer_count
                = streams[sid].viewer_count + 2

\* The same viewer holds two sessions on one stream, which counts two
\* viewers; the stream offers only 4K and both sessions are at 720p.
C29_Witness ==
  \E a \in SessionIds, b \in SessionIds :
    /\ a # b
    /\ sessions[a].viewer = sessions[b].viewer
    /\ sessions[a].stream_id = sessions[b].stream_id
    /\ streams[sessions[a].stream_id].viewer_count = 2
    /\ streams[sessions[a].stream_id].quality_levels = <<QUALITY_4K>>
    /\ sessions[a].quality_level = QUALITY_720P
    /\ sessions[b].quality_level = QUALITY_720P

\* Result r of a call on stream sid appends, when the call returned, exactly
\* one event of the given type carrying sid and the clock value, and leaves
\* the log as it was when the call aborted.
LogsOne(r, type, sid) ==
  IF r.err = 0
  THEN /\ Len(r.st.events) = Len(events) + 1
       /\ SubSeq(r.st.events, 1, Len(events)) = events
       /\ r.st.events[Len(events) + 1].type = type
       /\ r.st.events[Len(events) + 1].stream_id = sid
       /\ r.st.events[Len(events) + 1].timestamp = now
  ELSE r.st.events = events

\* What each entry point does to the log, over every call the inputs allow.
EachCallLogsItsEvent ==
  \A sender \in Addrs :
    /\ \A config \in Configs :
         LogsOne(create_stream(State, config, sender, now),
                 "StreamCreated", Len(streams) + 1)
    /\ \A sid \in StreamIds :
         /\ \A hls \in Manifests :
              LogsOne(start_stream(State, sid, hls, sender, now),
                      "StreamStarted", sid)
         /\ LogsOne(end_stream(State, sid, sender, now), "StreamEnded", sid)
         /\ \A n \in SegNums, blob \in Blobs :
              LogsOne(store_walrus_segment(State, sid, n, blob, sender, now),
                      "WalrusSegmentStored", sid)
         /\ \A payment \in AffordablePayments(sender) :
              LogsOne(join_stream(State, sid, payment, sender, now),
                      "ViewerJoined", sid)
         /\ \A ssid \in SessionIds, tip \in Affordable(sender) :
              LogsOne(send_tip(State, sid, ssid, tip, "msg", sender, now),
                      "TipSent", sid)
         /\ distribute_revenue(State, sid, sender).st.events = events
    /\ \A ssid \in SessionIds, q \in HeartbeatQualities :
         update_viewer_heartbeat(State, ssid, q, sender, now).st.events = events

\* C30: the event log is append-only, growing by at most one event per
\* step; each successful create_stream, start_stream, end_stream,
\* store_walrus_segment, join_stream and send_tip appends exactly one event
\* of its own type carrying the stream id and the call's clock value, and
\* update_viewer_heartbeat, distribute_revenue and every aborted call append
\* none.
C30_EventLogAppendOnly ==
  /\ []EachCallLogsItsEvent
  /\ [][/\ IsPrefix(events, events')
        /\ Len(events') <= Len(events) + 1]_vars

\* A log of four events of four types, in call order, after a heartbeat
\* and a distribution that logged nothing.
C30_Witness ==
  /\ Len(events) = 4
  /\ events[1].type = "StreamCreated"
  /\ events[2].type = "StreamStarted"
  /\ events[3].type = "ViewerJoined"
  /\ events[4].type = "TipSent"
  /\ \A k \in 1..4 : events[k].stream_id = 1 /\ events[k].timestamp = 1
  /\ now = 2
  /\ sessions[1].last_heartbeat = 2
  /\ streams[1].total_revenue = 0
  /\ funds[streams[1].creator] > InitFunds

\* The states in which pairs of calls are compared: up to two streams of one
\* creator in every combination of statuses, and up to two sessions of one
\* viewer, who joins free or paying 15.
NextPairs ==
  \/ CreateStreamOf({"alice"}, {CfgPaid, CfgFree}, 2, 6)
  \/ StartStreamOf({"alice"}, 6)
  \/ EndStreamOf({"alice"}, 6)
  \/ JoinStreamOf({"bob"}, {<<>>, <<15>>}, 2, 6)

SpecPairs == Init /\ [][NextPairs]_vars

\* An entry-point call as a value: the entry point, the stream and session
\* it names (0 for none) and its arguments, unused ones at a default.
NoCall ==
  [op |-> "", sid |-> 0, ssid |-> 0, sender |-> "alice", config |-> CfgPaid,
   payment |-> <<>>, n |-> 0, blob |-> "", tip |-> 0, q |-> 0]

\* The calls considered in state S.
CallsIn(S) ==
  LET sids == 1..Len(S.streams)
      ssids == 1..Len(S.sessions)
  IN
  {[NoCall EXCEPT !.op = "create_stream", !.sender = s, !.config = c] :
      s \in Addrs, c \in Configs}
  \cup {[NoCall EXCEPT !.op = "start_stream", !.sid = i, !.sender = s] :
      i \in sids, s \in Addrs}
  \cup {[NoCall EXCEPT !.op = "end_stream", !.sid = i, !.sender = s] :
      i \in sids, s \in Addrs}
  \cup {[NoCall EXCEPT !.op = "store_walrus_segment", !.sid = i, !.sender = s,
                       !.blob = "blobA"] :
      i \in sids, s \in Addrs}
  \cup {[NoCall EXCEPT !.op = "join_stream", !.sid = i, !.sender = s,
                       !.payment = p] :
      i \in sids, s \in Addrs, p \in {<<>>, <<5>>, <<15>>}}
  \cup {[NoCall EXCEPT !.op = "send_tip", !.sid = i, !.ssid = j, !.sender = s,
                       !.tip = 5] :
      i \in sids, j \in ssids, s \in Addrs}
  \cup {[NoCall EXCEPT !.op = "update_viewer_heartbeat", !.ssid = j,
                       !.sender = s, !.q = q] :
      j \in ssids, s \in Addrs, q \in HeartbeatQualities}
  \cup {[NoCall EXCEPT !.op = "distribute_revenue", !.sid = i, !.sender = s] :
      i \in sids, s \in Addrs}

\* The result of call c made in state S at clock value t.
Apply(S, c, t) ==
  CASE c.op = "create_stream" -> create_stream(S, c.config, c.sender, t)
    [] c.op = "start_stream" -> start_stream(S, c.sid, "manifest", c.sender, t)
    [] c.op = "end_stream" -> end_stream(S, c.sid, c.sender, t)
    [] c.op = "store_walrus_segment" ->
         store_walrus_segment(S, c.sid, c.n, c.blob, c.sender, t)
    [] c.op = "join_stream" -> join_stream(S, c.sid, c.payment, c.sender, t)
    [] c.op = "send_tip" ->
         send_tip(S, c.sid, c.ssid, c.tip, "msg", c.sender, t)
    [] c.op = "update_viewer_heartbeat" ->
         update_viewer_heartbeat(S, c.ssid, c.q, c.sender, t)
    [] c.op = "distribute_revenue" -> distribute_revenue(S, c.sid, c.sender)

\* The value of the coin a call passes in.
CoinOf(c) ==
  IF c.op = "join_stream" /\ Len(c.payment) > 0 THEN c.payment[1]
  ELSE IF c.op = "send_tip" THEN c.tip
  ELSE 0

\* Two calls that name different streams and different sessions, and pass
\* different coins, each held by its sender before either call.
Independent(a, b) ==
  /\ a.sid = 0 \/ b.sid = 0 \/ a.sid # b.sid
  /\ a.ssid = 0 \/ b.ssid = 0 \/ a.ssid # b.ssid
  /\ CoinOf(a) <= funds[a.sender]
  /\ CoinOf(b) <= funds[b.sender]
  /\ a.sender = b.sender => CoinOf(a) + CoinOf(b) <= funds[a.sender]

\* Sequences s and t hold the same elements the same number of times.
SameBag(s, t) ==
  /\ Len(s) = Len(t)
  /\ \A i \in 1..Len(s) :
       Cardinality({j \in 1..Len(s) : s[j] = s[i]})
         = Cardinality({j \in 1..Len(t) : t[j] = s[i]})

\* The streams a category bucket of state S lists, in bucket order.
BucketStreams(S, c) ==
  [i \in 1..Len(S.registry.category_streams[c]) |->
     S.streams[S.registry.category_streams[c][i]]]

\* The events of state S, each naming its stream by the stream itself, ids
\* of new objects depending on the order of creation.
EventsByStream(S) ==
  [k \in 1..Len(S.events) |->
     [S.events[k] EXCEPT !.stream_id = S.streams[S.events[k].stream_id]]]

\* States x and y hold the same objects: the objects of the current state
\* in the same condition, the same new streams and sessions, the same
\* counters and holdings, the same streams per bucket and the same events,
\* bucket and log order aside.
SameOutcome(x, y) ==
  /\ SubSeq(x.streams, 1, Len(streams)) = SubSeq(y.streams, 1, Len(streams))
  /\ SubSeq(x.sessions, 1, Len(sessions)) = SubSeq(y.sessions, 1, Len(sessions))
  /\ SameBag(x.streams, y.streams)
  /\ SameBag(x.sessions, y.sessions)
  /\ x.registry.total_streams = y.registry.total_streams
  /\ x.registry.active_streams = y.registry.active_streams
  /\ x.funds = y.funds
  /\ DOMAIN x.registry.category_streams = DOMAIN y.registry.category_streams
  /\ \A c \in DOMAIN x.registry.category_streams :
       SameBag(BucketStreams(x, c), BucketStreams(y, c))
  /\ SameBag(EventsByStream(x), EventsByStream(y))

\* The entry points in source order; a pair of calls is compared once, the
\* comparison being the same for (a, b) and (b, a).
OpNumber(op) ==
  CASE op = "create_stream" -> 1
    [] op = "start_stream" -> 2
    [] op = "end_stream" -> 3
    [] op = "store_walrus_segment" -> 4
    [] op = "join_stream" -> 5
    [] op = "send_tip" -> 6
    [] op = "update_viewer_heartbeat" -> 7
    [] op = "distribute_revenue" -> 8

\* C23: two entry-point calls that name different streams and different
\* sessions, made at the same clock value, commute: in either order each
\* returns or aborts with the same code, and the two orders yield the same
\* streams, sessions, total_streams, active_streams and holdings, the same
\* streams in each category bucket and the same events, order within a
\* bucket and within the log aside.
C23_IndependentCallsCommute ==
  \A calls \in {CallsIn(State)} :
    \A a \in calls, b \in calls :
      (Independent(a, b) /\ OpNumber(a.op) <= OpNumber(b.op)) =>
        \A ra \in {Apply(State, a, now)}, rb \in {Apply(State, b, now)} :
          \A rab \in {Apply(ra.st, b, now)}, rba \in {Apply(rb.st, a, now)} :
            /\ rab.err = rb.err
            /\ rba.err = ra.err
            /\ SameOutcome(rab.st, rba.st)

\* One stream can be started and another ended, both touching the live
\* count, and the two orders differ in the log only.
C23_Witness ==
  \E sid \in StreamIds, other \in StreamIds :
    /\ sid # other
    /\ \E ab \in {end_stream(start_stream(State, sid, "manifest",
                                          streams[sid].creator, now).st,
                             other, streams[other].creator, now)},
          ba \in {start_stream(end_stream(State, other,
                                          streams[other].creator, now).st,
                               sid, "manifest", streams[sid].creator, now)} :
         /\ ab.err = 0
         /\ ba.err = 0
         /\ ab.st.events # ba.st.events
         /\ ab.st.registry = ba.st.registry
         /\ ab.st.streams = ba.st.streams

RECURSIVE SumOf(_)
\* The sum of a sequence of numbers.
SumOf(s) == IF Len(s) = 0 THEN 0 ELSE s[1] + SumOf(Tail(s))

\* The revenue held by all streams together.
TotalBalance == SumOf([sid \in StreamIds |-> streams[sid].total_revenue])

RECURSIVE HoldingsOf(_)
\* What the addresses of a set hold outside the streams.
HoldingsOf(addrs) ==
  IF addrs = {} THEN 0
  ELSE LET a == CHOOSE x \in addrs : TRUE
       IN funds[a] + HoldingsOf(addrs \ {a})

\* What all addresses hold outside the streams.
TotalHoldings == HoldingsOf(Addrs)

\* The tips all sessions have sent.
TotalTipsSent == SumOf([ssid \in SessionIds |-> sessions[ssid].tips_sent])

\* The amounts of all TipSent events.
TotalTipsLogged ==
  SumOf([k \in 1..Len(events) |->
           IF events[k].type = "TipSent" THEN events[k].amount ELSE 0])

\* Value is neither created nor destroyed: balances plus holdings are what
\* the addresses held at the start; and the tips recorded by the sessions
\* are the tips the log reports.
ValueConserved ==
  /\ TotalBalance + TotalHoldings = Cardinality(Addrs) * InitFunds
  /\ TotalTipsSent = TotalTipsLogged

\* C31: balances plus everything distributed to creators equal the join
\* payments merged plus the tips sent. Step by step: the balances and the
\* holdings together never change; the balances rise only by a tip, which
\* the tipping session's tips_sent records, or by a join payment, which the
\* new session's has_paid records, and the payer's holdings fall by the
\* same amount; they fall only by a distribution, which the creator's
\* holdings gain in full; and while the balances stay, so do the tips sent.
C31_ValueConserved ==
  /\ []ValueConserved
  /\ [][LET dBalance == TotalBalance' - TotalBalance
            dTips == TotalTipsSent' - TotalTipsSent
            dHoldings == TotalHoldings' - TotalHoldings
        IN /\ dBalance + dHoldings = 0
           /\ dTips >= 0
           /\ dBalance = 0 => dTips = 0
           /\ dBalance > 0 =>
                \/ dTips = dBalance /\ sessions' # sessions
                                   /\ Len(sessions') = Len(sessions)
                \/ /\ dTips = 0
                   /\ Len(sessions') = Len(sessions) + 1
                   /\ sessions'[Len(sessions')].has_paid
                   /\ funds'[sessions'[Len(sessions')].viewer]
                        = funds[sessions'[Len(sessions')].viewer] - dBalance
           /\ dBalance < 0 =>
                /\ dTips = 0
                /\ sessions' = sessions
                /\ \E sid \in StreamIds :
                     /\ streams'[sid].total_revenue = 0
                     /\ streams[sid].total_revenue = - dBalance
                     /\ funds'[streams[sid].creator]
                          = funds[streams[sid].creator] - dBalance]_vars

\* A payment of 15 and a tip of 5 were merged and distributed: the streams
\* hold nothing, the creator holds 20 more and the viewer 20 less.
C31_Witness ==
  /\ TotalBalance = 0
  /\ TotalTipsSent = 5
  /\ \E ssid \in SessionIds :
       /\ sessions[ssid].has_paid
       /\ sessions[ssid].viewer # streams[sessions[ssid].stream_id].creator
       /\ funds[sessions[ssid].viewer] = InitFunds - 20
       /\ funds[streams[sessions[ssid].stream_id].creator] = InitFunds + 20

\* The sessions that name a stream.
SessionsOf(sid) == {ssid \in SessionIds : sessions[ssid].stream_id = sid}

\* A stream's viewer_count is the number of sessions naming it, and a stream
\* that was never started has none.
ViewerCountIsSessionCount ==
  \A sid \in StreamIds :
    /\ streams[sid].viewer_count = Cardinality(SessionsOf(sid))
    /\ streams[sid].status = STREAM_STATUS_CREATED =>
         streams[sid].viewer_count = 0

\* C32: in every reachable state each stream's viewer_count is the number of
\* sessions whose stream_id is that stream, and it is 0 for a stream that
\* has never been Live; no step destroys a session or moves it to another
\* stream or viewer, and a step that creates one is a join_stream of that
\* stream by that viewer.
C32_ViewerCountIsSessionCount ==
  /\ []ViewerCountIsSessionCount
  /\ [][/\ Len(sessions') >= Len(sessions)
        /\ \A ssid \in SessionIds :
             /\ sessions'[ssid].stream_id = sessions[ssid].stream_id
             /\ sessions'[ssid].viewer = sessions[ssid].viewer
        /\ Len(sessions') > Len(sessions) =>
             /\ Len(sessions') = Len(sessions) + 1
             /\ Len(events') = Len(events) + 1
             /\ events'[Len(events')].type = "ViewerJoined"
             /\ events'[Len(events')].stream_id
                  = sessions'[Len(sessions')].stream_id
             /\ events'[Len(events')].viewer
                  = sessions'[Len(sessions')].viewer]_vars

\* Two streams side by side: one went live and has one viewer and one
\* session, the other was never started and has neither.
C32_Witness ==
  \E a \in StreamIds, b \in StreamIds :
    /\ streams[a].status = STREAM_STATUS_LIVE
    /\ streams[a].viewer_count = 1
    /\ Cardinality(SessionsOf(a)) = 1
    /\ streams[b].status = STREAM_STATUS_CREATED
    /\ streams[b].viewer_count = 0
    /\ SessionsOf(b) = {}

\* The result of a heartbeat by the session's viewer at a time.
HeartbeatAt(S, ssid, t) ==
  update_viewer_heartbeat(S, ssid, QUALITY_4K, S.sessions[ssid].viewer, t)

\* C33: for every session in every reachable state total_watch_time =
\* last_heartbeat - started_at; and a heartbeat at one time followed by a
\* heartbeat at a later time leaves the state a single heartbeat at the
\* later time leaves, so the watch time does not depend on how many
\* heartbeats were sent.
C33_WatchTimeTelescopes ==
  /\ \A ssid \in SessionIds :
       sessions[ssid].total_watch_time
         = sessions[ssid].last_heartbeat - sessions[ssid].started_at
  /\ \A ssid \in SessionIds, t1 \in HeartbeatTimes, t2 \in HeartbeatTimes :
       t1 <= t2 =>
         /\ HeartbeatAt(State, ssid, t1).err = 0
         /\ HeartbeatAt(HeartbeatAt(State, ssid, t1).st, ssid, t2)
              = HeartbeatAt(State, ssid, t2)
         /\ HeartbeatAt(State, ssid, t2).st.sessions[ssid].total_watch_time
              = t2 - sessions[ssid].started_at

\* A session of a stream still live that joined at 1 and last reported at 2
\* with the 4K tier: its watch time is 1.
C33_Witness ==
  \E ssid \in SessionIds :
    /\ streams[sessions[ssid].stream_id].status = STREAM_STATUS_LIVE
    /\ sessions[ssid].quality_level = QUALITY_4K
    /\ sessions[ssid].started_at = 1
    /\ sessions[ssid].last_heartbeat = 2
    /\ sessions[ssid].total_watch_time = 1

\* The states in which tips, segments and distributions are examined: up to
\* two streams of one creator, with tips enabled or not, in every
\* combination of statuses, one session of one viewer, and segments stored,
\* tips and distributions while a stream is Created, Live or Ended.
NextTips ==
  \/ CreateStreamOf({"alice"}, {CfgPaid, CfgFree}, 2, 8)
  \/ StartStreamOf({"alice"}, 8)
  \/ EndStreamOf({"alice"}, 8)
  \/ StoreWalrusSegmentOf({"alice"}, 8)
  \/ JoinStreamOf({"bob"}, {<<>>, <<10>>}, 1, 8)
  \/ SendTipOf(Addrs, {5}, 8)
  \/ DistributeRevenueOf(Addrs)

SpecTips == Init /\ [][NextTips]_vars

\* The position of the first event of a type for a stream in the log, or 0.
FirstEvent(type, sid) ==
  LET ks == {k \in 1..Len(events) :
               events[k].type = type /\ events[k].stream_id = sid}
  IN IF ks = {} THEN 0 ELSE CHOOSE k \in ks : \A j \in ks : k <= j

\* C34: send_tip succeeds exactly when the stream has tips enabled and the
\* sender is the session's viewer, whatever the stream's status and whether
\* or not the session belongs to the tipped stream; the tipped stream's
\* balance and the presented session's tips_sent then both rise by the tip
\* and nothing else about streams and sessions changes. Without tips
\* enabled it aborts with EStreamNotActive, otherwise for another sender
\* with ENotStreamOwner.
C34_TipNeedsOnlyTipEnabledAndViewer ==
  \A sid \in StreamIds, ssid \in SessionIds, sender \in Addrs :
    \A tip \in Affordable(sender) :
      LET r == send_tip(State, sid, ssid, tip, "msg", sender, now)
      IN IF ~streams[sid].tip_enabled
         THEN r = Abort(State, EStreamNotActive)
         ELSE IF sender # sessions[ssid].viewer
         THEN r = Abort(State, ENotStreamOwner)
         ELSE /\ r.err = 0
              /\ r.st.streams =
                   [streams EXCEPT ![sid].total_revenue = @ + tip]
              /\ r.st.sessions =
                   [sessions EXCEPT ![ssid].tips_sent = @ + tip]

\* The one session belongs to a stream that has ended and was tipped after
\* its end; with the same session the viewer also tipped the other stream,
\* which was never started: that stream holds the 5 and the session records
\* both tips.
C34_Witness ==
  \E a \in StreamIds, b \in StreamIds, ssid \in SessionIds :
    /\ a # b
    /\ sessions[ssid].stream_id = b
    /\ sessions[ssid].tips_sent = 10
    /\ streams[a].status = STREAM_STATUS_CREATED
    /\ streams[a].total_revenue = 5
    /\ FirstEvent("TipSent", a) > 0
    /\ streams[b].status = STREAM_STATUS_ENDED
    /\ FirstEvent("TipSent", b) > FirstEvent("StreamEnded", b)

\* C35: when a call fails two checks the first one in the code names the
\* error. start_stream and end_stream by a non-creator on a stream in the
\* wrong status abort with ENotStreamOwner, and by the creator with
\* EStreamNotActive; send_tip by a non-owner of the session on a stream with
\* tips disabled aborts with EStreamNotActive, and on a stream with tips
\* enabled with ENotStreamOwner; update_viewer_heartbeat by a non-owner with
\* an unsupported tier aborts with ENotStreamOwner, and by the owner with
\* EInvalidQuality.
C35_FirstFailedCheckNamesTheError ==
  /\ \A sid \in StreamIds, sender \in Addrs, hls \in Manifests :
       streams[sid].status # STREAM_STATUS_CREATED =>
         start_stream(State, sid, hls, sender, now).err
           = IF sender # streams[sid].creator
             THEN ENotStreamOwner ELSE EStreamNotActive
  /\ \A sid \in StreamIds, sender \in Addrs :
       streams[sid].status # STREAM_STATUS_LIVE =>
         end_stream(State, sid, sender, now).err
           = IF sender # streams[sid].creator
             THEN ENotStreamOwner ELSE EStreamNotActive
  /\ \A sid \in StreamIds, ssid \in SessionIds, sender \in Addrs :
       \A tip \in Affordable(sender) :
         sender # sessions[ssid].viewer =>
           send_tip(State, sid, ssid, tip, "msg", sender, now).err
             = IF ~streams[sid].tip_enabled
               THEN EStreamNotActive ELSE ENotStreamOwner
  /\ \A ssid \in SessionIds, sender \in Addrs, t \in HeartbeatTimes :
       update_viewer_heartbeat(State, ssid, QUALITY_4K + 1, sender, t).err
         = IF sender # sessions[ssid].viewer
           THEN ENotStreamOwner ELSE EInvalidQuality

\* A live stream with tips disabled and a session, next to a stream not yet
\* started: here the non-creator's start of the live stream and end of the
\* other one, the tip from an address that does not own the session, and
\* that address's heartbeat with a tier above 4K each fail two checks.
C35_Witness ==
  \E a \in StreamIds, b \in StreamIds, ssid \in SessionIds, other \in Addrs :
    /\ streams[a].status = STREAM_STATUS_LIVE
    /\ ~streams[a].tip_enabled
    /\ streams[b].status = STREAM_STATUS_CREATED
    /\ other # streams[a].creator
    /\ other # streams[b].creator
    /\ sessions[ssid].viewer = other
    /\ start_stream(State, a, "manifest", other, now).err = ENotStreamOwner
    /\ end_stream(State, b, other, now).err = ENotStreamOwner
    /\ \E tipper \in Addrs \ {other} :
         /\ send_tip(State, a, ssid, 5, "msg", tipper, now).err
              = EStreamNotActive
         /\ update_viewer_heartbeat(State, ssid, QUALITY_4K + 1, tipper, now).err
              = ENotStreamOwner

\* What create_stream fixes for good: the moderation score is 100, there are
\* no revenue splits, and every tier stored in a stream or a session is one
\* of the five supported ones.
DefaultsAndTiersKept ==
  /\ \A sid \in StreamIds :
       /\ streams[sid].moderation_score = 100
       /\ streams[sid].revenue_splits = <<>>
       /\ \A i \in 1..Len(streams[sid].quality_levels) :
            streams[sid].quality_levels[i] \in QUALITY_240P..QUALITY_4K
  /\ \A ssid \in SessionIds :
       sessions[ssid].quality_level \in QUALITY_240P..QUALITY_4K

\* C36: no step changes an existing stream's creator, category,
\* quality_levels, is_monetized, subscription_price, tip_enabled,
\* moderation_score or revenue_splits; in every reachable state
\* moderation_score = 100, revenue_splits is empty and every stored quality
\* tier, of a stream or of a session, is within 240p..4K.
C36_ConfigurationFixedAtCreation ==
  /\ []DefaultsAndTiersKept
  /\ [][\A sid \in StreamIds :
          /\ streams'[sid].creator = streams[sid].creator
          /\ streams'[sid].category = streams[sid].category
          /\ streams'[sid].quality_levels = streams[sid].quality_levels
          /\ streams'[sid].is_monetized = streams[sid].is_monetized
          /\ streams'[sid].subscription_price = streams[sid].subscription_price
          /\ streams'[sid].tip_enabled = streams[sid].tip_enabled
          /\ streams'[sid].moderation_score = streams[sid].moderation_score
          /\ streams'[sid].revenue_splits = streams[sid].revenue_splits]_vars

\* A stream that went through its whole life, with a paid join, a heartbeat
\* at the 4K tier and a distribution, still has the configuration it was
\* created with.
C36_Witness ==
  \E ssid \in SessionIds :
    LET stream == streams[sessions[ssid].stream_id] IN
    /\ stream.status = STREAM_STATUS_ENDED
    /\ sessions[ssid].has_paid
    /\ sessions[ssid].quality_level = QUALITY_4K
    /\ stream.total_revenue = 0
    /\ stream.creator = "alice"
    /\ stream.category = CfgPaid.category
    /\ stream.quality_levels = CfgPaid.quality_levels
    /\ stream.is_monetized = CfgPaid.is_monetized
    /\ stream.subscription_price = CfgPaid.subscription_price
    /\ stream.tip_enabled = CfgPaid.tip_enabled
    /\ stream.moderation_score = 100
    /\ stream.revenue_splits = <<>>

\* The positions of the events of a type for a stream in the log.
Positions(type, sid) ==
  {k \in 1..Len(events) : events[k].type = type /\ events[k].stream_id = sid}

\* C37: for every stream the log holds at most one StreamCreated, one
\* StreamStarted and one StreamEnded; a StreamStarted comes after the
\* stream's StreamCreated and a StreamEnded after its StreamStarted; and
\* every ViewerJoined of the stream comes after its StreamStarted and, if
\* the stream has a StreamEnded, before it.
C37_LifecycleEventsInOrder ==
  \A sid \in StreamIds :
    LET created == Positions("StreamCreated", sid)
        started == Positions("StreamStarted", sid)
        ended == Positions("StreamEnded", sid)
        joined == Positions("ViewerJoined", sid)
    IN /\ Cardinality(created) <= 1
       /\ Cardinality(started) <= 1
       /\ Cardinality(ended) <= 1
       /\ \A s \in started : \E c \in created : c < s
       /\ \A e \in ended : \E s \in started : s < e
       /\ \A j \in joined :
            /\ \E s \in started : s < j
            /\ \A e \in ended : j < e

\* Stream b was created, started, joined and ended, with the join between
\* the start and the end; a segment of it was stored before its start and
\* it was tipped after its end; stream a was tipped although it never
\* started.
C37_Witness ==
  \E a \in StreamIds, b \in StreamIds :
    /\ a # b
    /\ \E c \in Positions("StreamCreated", b),
          g \in Positions("WalrusSegmentStored", b),
          s \in Positions("StreamStarted", b),
          j \in Positions("ViewerJoined", b),
          e \in Positions("StreamEnded", b),
          t \in Positions("TipSent", b) :
         c < g /\ g < s /\ s < j /\ j < e /\ e < t
    /\ Positions("StreamStarted", a) = {}
    /\ Positions("TipSent", a) # {}

\* C38: distribute_revenue by the creator returns in every status of the
\* stream, leaving the balance at 0 and the creator holding what the
\* balance held; a second call right after it returns too and changes
\* nothing, so two consecutive calls leave the state one call leaves.
C38_DistributeAnyStatusIdempotent ==
  \A sid \in StreamIds :
    LET creator == streams[sid].creator
        once == distribute_revenue(State, sid, creator)
        twice == distribute_revenue(once.st, sid, creator)
    IN /\ once.err = 0
       /\ once.st.streams[sid].total_revenue = 0
       /\ once.st.funds[creator]
            = funds[creator] + streams[sid].total_revenue
       /\ twice = Ok(once.st)

\* A stream that was tipped and emptied by its creator while still in
\* status Created, next to a live stream holding a tip not yet withdrawn.
C38_Witness ==
  \E a \in StreamIds, b \in StreamIds :
    /\ streams[a].status = STREAM_STATUS_CREATED
    /\ Positions("TipSent", a) # {}
    /\ streams[a].total_revenue = 0
    /\ funds[streams[a].creator] = InitFunds + 5
    /\ streams[b].status = STREAM_STATUS_LIVE
    /\ streams[b].total_revenue = 5

====
